---- MODULE Spec2Model ----
(***************************************************************************)
(* Model of the partitioned LSM key-value store: rows and their on-disk    *)
(* encoding, the memtable, commit logs, SSTable flush and point lookup,    *)
(* the per-thread request handlers and the two-phase commit of             *)
(* transactions across partition threads.                                  *)
(*                                                                         *)
(* Strings and files are sequences of bytes (naturals below 256).  One     *)
(* table is registered; its schema is  t>sort_key:VARCHAR(1);v:VARCHAR(1). *)
(***************************************************************************)
EXTENDS Naturals, Integers, Sequences, FiniteSets, TLC

(* ------------------------------------------------------------------ *)
(* Program constants                                                   *)
(* ------------------------------------------------------------------ *)

\* storage/src/lib.rs: pub static HASH_KEY_BYTE_SIZE (128 in the program; the
\* model keeps it wider than an SSTable header and narrow enough to read)
HASH_KEY_BYTE_SIZE == 4

\* size_of::<u128>(), the width of an encoded timestamp (16 in the program)
TIMESTAMP_SIZE == 2

\* VARCHAR(1): ColumnType::byte_size of the sort key and of column "v"
VARCHAR_SIZE == 1

\* listener.rs: num_of_threads; ThreadContext.total_number_of_partitions is
\* set to the same number
NumThreads == 2

Threads == 0 .. (NumThreads - 1)

\* listener.rs: num_of_partitions, dealt out to the threads modulo their
\* number and handed to compaction_main
NUM_OF_PARTITIONS == 1000

\* Option<T>: None is the empty sequence, Some(x) the one-element sequence
None == <<>>
Some(x) == <<x>>

\* common::value::Value.  Null is the empty tuple and Varchar(s) the tuple
\* holding the byte string s, so that Varchar("") and Null stay distinct
Null == <<>>
Varchar(s) == <<s>>

\* ASCII codes used by the file formats
COLON == 58
COMMA == 44
NEWLINE == 10
DIGIT0 == 48

(* ------------------------------------------------------------------ *)
(* Byte strings                                                        *)
(* ------------------------------------------------------------------ *)

Zeros(n) == [i \in 1 .. n |-> 0]

\* Lexicographic byte order: Rust's  <  on str / String
RECURSIVE StrLess(_, _)
StrLess(a, b) ==
    IF b = <<>> THEN FALSE
    ELSE IF a = <<>> THEN TRUE
    ELSE IF Head(a) # Head(b) THEN Head(a) < Head(b)
    ELSE StrLess(Tail(a), Tail(b))

\* usize::to_string
RECURSIVE NatToString(_)
NatToString(n) ==
    IF n < 10 THEN <<DIGIT0 + n>>
    ELSE NatToString(n \div 10) \o <<DIGIT0 + (n % 10)>>

\* u128::to_be_bytes: model timestamps stay below 256, one significant byte
TimestampToBytes(ts) == Zeros(TIMESTAMP_SIZE - 1) \o <<ts % 256>>

\* u128::from_be_bytes
RECURSIVE BytesToNat(_)
BytesToNat(bytes) ==
    IF bytes = <<>> THEN 0
    ELSE BytesToNat(SubSeq(bytes, 1, Len(bytes) - 1)) * 256 + bytes[Len(bytes)]

(* ------------------------------------------------------------------ *)
(* Values and rows                                                     *)
(* ------------------------------------------------------------------ *)

\* Value::to_bytes
ValueToBytes(value) == IF value = Null THEN <<>> ELSE value[1]

\* impl Display for Value
ValueToString(value) == IF value = Null THEN <<>> ELSE value[1]

\* "{hash_key}:{sort_key}"
PrimaryKey(hash_key, sort_key) == hash_key \o <<COLON>> \o ValueToString(sort_key)

\* Row::new_with_timestamp
RowNewWithTimestamp(hash_key, sort_key, values, timestamp) ==
    [hash_key |-> hash_key,
     sort_key |-> sort_key,
     primary_key |-> PrimaryKey(hash_key, sort_key),
     values |-> values,
     timestamp |-> timestamp,
     version |-> 1,
     marked_for_deletion |-> FALSE]

\* parse_value_from_bytes for ColumnType::Varchar
parse_value_from_bytes(bytes) == IF bytes[1] = 0 THEN Null ELSE Varchar(bytes)

\* TableSchema::row_byte_size
row_byte_size ==
    HASH_KEY_BYTE_SIZE + VARCHAR_SIZE + VARCHAR_SIZE + TIMESTAMP_SIZE + 1

\* encode_row.  BufWriter::new(vec![0u8; n]) buffers what write_all gives it
\* and get_mut() hands back the untouched zero-filled vector, so the hash key
\* field and every column field are written as zeros; the sort key is
\* appended with its own length.
encode_row(row) ==
    Zeros(HASH_KEY_BYTE_SIZE)
        \o ValueToBytes(row.sort_key)
        \o Zeros(VARCHAR_SIZE)
        \o TimestampToBytes(row.timestamp)
        \o <<IF row.marked_for_deletion THEN 1 ELSE 0>>

\* String::from_utf8(..).unwrap() succeeds: the model's strings are ASCII
ValidUtf8(bytes) == \A i \in 1 .. Len(bytes) : bytes[i] < 128

\* decode_row of a slice: None when it panics, because the slice is too short
\* for one of its index ranges or the hash key bytes are not UTF-8
decode_row(bytes) ==
    IF Len(bytes) < row_byte_size THEN None
    ELSE IF ~ValidUtf8(SubSeq(bytes, 1, HASH_KEY_BYTE_SIZE)) THEN None
    ELSE
        LET hash_key == SubSeq(bytes, 1, HASH_KEY_BYTE_SIZE)
            o1 == HASH_KEY_BYTE_SIZE
            sort_key == parse_value_from_bytes(SubSeq(bytes, o1 + 1, o1 + VARCHAR_SIZE))
            o2 == o1 + VARCHAR_SIZE
            value == parse_value_from_bytes(SubSeq(bytes, o2 + 1, o2 + VARCHAR_SIZE))
            o3 == o2 + VARCHAR_SIZE
            timestamp == BytesToNat(SubSeq(bytes, o3 + 1, o3 + TIMESTAMP_SIZE))
            o4 == o3 + TIMESTAMP_SIZE
            row == RowNewWithTimestamp(hash_key, sort_key, value, timestamp)
        IN Some([row EXCEPT !.marked_for_deletion = (bytes[o4 + 1] = 1)])

(* ------------------------------------------------------------------ *)
(* Partition hashing                                                   *)
(* ------------------------------------------------------------------ *)

\* The hash keys of the model.  HashB is "b"; HashW is "1:0" padded with NUL
\* bytes to the full width of the hash key field; HashZ is the all-NUL hash
\* key that decode_row reads back from every encoded row.
HashB == <<98>>
HashW == <<DIGIT0 + 1, COLON, DIGIT0>> \o Zeros(HASH_KEY_BYTE_SIZE - 3)
HashZ == Zeros(HASH_KEY_BYTE_SIZE)
\* HashC is "b:", the hash key "b" with a colon after it (its hash is
\* 1930408501)
HashC == HashB \o <<COLON>>

\* murmur3_32(hash_key, MURMUR3_SEED) of the hash keys above, as the pair of
\* its high and low 16 bits: 3333921771, 2566237079, 2538555941; then of the
\* hash keys "0", "3", "c", "p" and of the four-byte strings of NUL and SOH
\* bytes, which is what a row read across a row boundary decodes to
murmur3_32(hash_key) ==
    CASE hash_key = HashB -> <<50871, 39915>>
      [] hash_key = HashW -> <<39157, 43927>>
      [] hash_key = HashC -> <<29455, 45621>>
      [] hash_key = HashZ -> <<38735, 18981>>
      [] hash_key = <<48>> -> <<58447, 36935>>
      [] hash_key = <<51>> -> <<21497, 47111>>
      [] hash_key = <<99>> -> <<50696, 21071>>
      [] hash_key = <<112>> -> <<63728, 61609>>
      [] hash_key = <<0, 0, 0, 1>> -> <<51587, 17566>>
      [] hash_key = <<0, 0, 1, 0>> -> <<24100, 9860>>
      [] hash_key = <<0, 0, 1, 1>> -> <<27710, 304>>
      [] hash_key = <<0, 1, 0, 0>> -> <<57171, 25514>>
      [] hash_key = <<0, 1, 0, 1>> -> <<17460, 6506>>
      [] hash_key = <<0, 1, 1, 0>> -> <<5484, 55167>>
      [] hash_key = <<0, 1, 1, 1>> -> <<21576, 51866>>
      [] hash_key = <<1, 0, 0, 0>> -> <<2406, 38755>>
      [] hash_key = <<1, 0, 0, 1>> -> <<26449, 50761>>
      [] hash_key = <<1, 0, 1, 0>> -> <<56656, 51670>>
      [] hash_key = <<1, 0, 1, 1>> -> <<11652, 3872>>
      [] hash_key = <<1, 1, 0, 0>> -> <<18067, 32265>>
      [] hash_key = <<1, 1, 0, 1>> -> <<14398, 46084>>
      [] hash_key = <<1, 1, 1, 0>> -> <<21917, 65524>>
      [] hash_key = <<1, 1, 1, 1>> -> <<11237, 40685>>

\* get_hash_key_target_partition: hash % num_of_partitions
get_hash_key_target_partition(hash_key, num_of_partitions) ==
    LET hash == murmur3_32(hash_key)
    IN ((hash[1] % num_of_partitions) * (65536 % num_of_partitions)
            + (hash[2] % num_of_partitions)) % num_of_partitions

(* ------------------------------------------------------------------ *)
(* Memtable: the level-0 list of the skip list, rows in primary key    *)
(* order, with the running memory counter                              *)
(* ------------------------------------------------------------------ *)

\* Memtable::default
MemtableDefault == [rows |-> <<>>, memory_size |-> 0]

\* Node::get_memory_size, in units of one node
NodeMemorySize(row) == 1

\* The cap of max_size_reached, in the same units
MEMTABLE_MAX_SIZE == 1

\* Number of rows whose primary key is smaller than primary_key: where the
\* search of get, insert and delete stops
SearchPosition(memtable, primary_key) ==
    Cardinality({i \in 1 .. Len(memtable.rows) :
                    StrLess(memtable.rows[i].primary_key, primary_key)})

HasKey(memtable, primary_key) ==
    LET p == SearchPosition(memtable, primary_key) + 1
    IN p <= Len(memtable.rows) /\ memtable.rows[p].primary_key = primary_key

\* Memtable::get
memtable_get(memtable, primary_key) ==
    LET p == SearchPosition(memtable, primary_key) + 1
    IN IF HasKey(memtable, primary_key) /\ ~memtable.rows[p].marked_for_deletion
       THEN Some(memtable.rows[p])
       ELSE None

\* Memtable::insert that takes every row as a client's: the timestamp test
\* of a replayed row is left out and the version counts the replay
memtable_insert_as_client(memtable, row, from_commit_log, millis) ==
    LET p == SearchPosition(memtable, row.primary_key) + 1
    IN IF HasKey(memtable, row.primary_key)
       THEN [memtable EXCEPT !.rows[p] =
                [@ EXCEPT !.timestamp = millis,
                          !.version = @ + 1,
                          !.values = row.values,
                          !.marked_for_deletion = FALSE]]
       ELSE [rows |-> SubSeq(memtable.rows, 1, p - 1) \o <<row>>
                        \o SubSeq(memtable.rows, p, Len(memtable.rows)),
             memory_size |-> memtable.memory_size + NodeMemorySize(row)]

\* Memtable::insert
memtable_insert(memtable, row, from_commit_log, millis) ==
    LET p == SearchPosition(memtable, row.primary_key) + 1
        old == memtable.rows[p]
    IN IF HasKey(memtable, row.primary_key)
       THEN IF from_commit_log /\ old.timestamp >= row.timestamp
            THEN memtable
            ELSE [memtable EXCEPT !.rows[p] =
                    [old EXCEPT
                        !.timestamp = IF from_commit_log THEN row.timestamp ELSE millis,
                        !.version = IF from_commit_log THEN @ ELSE @ + 1,
                        !.values = row.values,
                        !.marked_for_deletion = FALSE]]
       ELSE [rows |-> SubSeq(memtable.rows, 1, p - 1) \o <<row>>
                        \o SubSeq(memtable.rows, p, Len(memtable.rows)),
             memory_size |-> memtable.memory_size + NodeMemorySize(row)]

\* Memtable::delete: the value it returns.  timestamp is an Option: Some
\* when the delete is replayed from a commit log
memtable_delete_result(memtable, primary_key, timestamp) ==
    LET p == SearchPosition(memtable, primary_key) + 1
    IN /\ HasKey(memtable, primary_key)
       /\ (timestamp # None => memtable.rows[p].timestamp < timestamp[1])

\* Memtable::delete: the memtable after the call
memtable_delete(memtable, primary_key, timestamp, millis) ==
    LET p == SearchPosition(memtable, primary_key) + 1
    IN IF ~memtable_delete_result(memtable, primary_key, timestamp) THEN memtable
       ELSE [memtable EXCEPT !.rows[p] =
                [@ EXCEPT
                    !.timestamp = IF timestamp # None THEN timestamp[1] ELSE millis,
                    !.marked_for_deletion = TRUE]]

\* Memtable::max_size_reached
max_size_reached(memtable) == memtable.memory_size > MEMTABLE_MAX_SIZE

\* Memtable::to_sstable_rows: the rows in primary key order and, for each
\* partition that owns a row, the number of the first row of that partition
to_sstable_rows(memtable, total_number_of_partitions) ==
    LET rows == memtable.rows
        part(i) == get_hash_key_target_partition(rows[i].hash_key,
                                                 total_number_of_partitions)
        parts == {part(i) : i \in 1 .. Len(rows)}
        first(q) == CHOOSE i \in 1 .. Len(rows) :
                        /\ part(i) = q
                        /\ \A j \in 1 .. (i - 1) : part(j) # q
    IN [rows |-> rows, partition_index |-> [q \in parts |-> first(q) - 1]]

(* ------------------------------------------------------------------ *)
(* Files.  A directory is a set of entries [name, ino, bytes]; ino      *)
(* tells apart two files that carried the same name at different times  *)
(* ------------------------------------------------------------------ *)

\* write_all_at: the content of a file after data is written at offset
WriteAt(bytes, data, offset) ==
    LET end == offset + Len(data)
        len == IF Len(bytes) > end THEN Len(bytes) ELSE end
    IN [i \in 1 .. len |->
            IF i > offset /\ i <= end THEN data[i - offset]
            ELSE IF i <= Len(bytes) THEN bytes[i]
            ELSE 0]

\* read_exact_at(buf, offset).1: the buffer that comes back.  The bytes the
\* file has from offset on replace the front of the buffer; what the file
\* cannot supply keeps the buffer's previous content
ReadExactAt(bytes, buf, offset) ==
    [i \in 1 .. Len(buf) |->
        IF offset + i <= Len(bytes) THEN bytes[offset + i] ELSE buf[i]]

\* str::split(sep) on a byte string
RECURSIVE Split(_, _)
Split(bytes, sep) ==
    IF \A i \in 1 .. Len(bytes) : bytes[i] # sep THEN <<bytes>>
    ELSE LET i == CHOOSE j \in 1 .. Len(bytes) :
                    bytes[j] = sep /\ \A k \in 1 .. (j - 1) : bytes[k] # sep
         IN <<SubSeq(bytes, 1, i - 1)>> \o Split(SubSeq(bytes, i + 1, Len(bytes)), sep)

\* str::parse::<usize>: Some(number), or None where parse returns Err
RECURSIVE DigitsToNat(_)
DigitsToNat(bytes) ==
    IF bytes = <<>> THEN 0
    ELSE DigitsToNat(SubSeq(bytes, 1, Len(bytes) - 1)) * 10
            + (bytes[Len(bytes)] - DIGIT0)

ParseUsize(bytes) ==
    IF bytes # <<>> /\ \A i \in 1 .. Len(bytes) :
                            bytes[i] >= DIGIT0 /\ bytes[i] <= DIGIT0 + 9
    THEN Some(DigitsToNat(bytes))
    ELSE None

(* ------------------------------------------------------------------ *)
(* SSTable segments                                                    *)
(* ------------------------------------------------------------------ *)

\* Ascending enumeration of a finite set of naturals
RECURSIVE SortedSeq(_)
SortedSeq(set) ==
    IF set = {} THEN <<>>
    ELSE LET m == CHOOSE x \in set : \A y \in set : x <= y
         IN <<m>> \o SortedSeq(set \ {m})

\* write_to_disk: the partition index, "partition:row" pairs joined by ","
RECURSIVE JoinPairs(_, _)
JoinPairs(partitions, partition_index) ==
    IF partitions = <<>> THEN <<>>
    ELSE LET q == Head(partitions)
             pair == NatToString(q) \o <<COLON>> \o NatToString(partition_index[q])
         IN IF Len(partitions) = 1 THEN pair
            ELSE pair \o <<COMMA>> \o JoinPairs(Tail(partitions), partition_index)

partition_index_bytes(partition_index) ==
    JoinPairs(SortedSeq(DOMAIN partition_index), partition_index)

\* write_to_disk: the rows, encoded and chained
RECURSIVE encoded_rows(_)
encoded_rows(rows) ==
    IF rows = <<>> THEN <<>>
    ELSE encode_row(Head(rows)) \o encoded_rows(Tail(rows))

\* write_to_disk: "{table}-{index length}-{rows}-{millis}"
SSTableFileName(partition_index, rows, millis) ==
    <<Len(partition_index_bytes(partition_index)), Len(rows), millis>>

\* read_row_from_sstable: the partition index parsed from the header bytes, as
\* a sequence of <<partition, row number>> pairs; None where an unwrap panics
ParsePair(pair_string) ==
    LET parts == Split(pair_string, COLON)
    IN IF Len(parts) < 2 THEN None
       ELSE LET partition == ParseUsize(parts[1])
                rest == SubSeq(pair_string, Len(parts[1]) + 2, Len(pair_string))
                row_number == ParseUsize(rest)
            IN IF partition = None \/ row_number = None THEN None
               ELSE Some(<<partition[1], row_number[1]>>)

ParsePartitionIndex(header) ==
    LET pairs == Split(header, COMMA)
        parsed == [i \in 1 .. Len(pairs) |-> ParsePair(pairs[i])]
    IN IF ~ValidUtf8(header) \/ \E i \in 1 .. Len(pairs) : parsed[i] = None
       THEN None
       ELSE Some([i \in 1 .. Len(pairs) |-> parsed[i][1]])

\* HashMap lookups on the collected pairs: a later pair replaces an earlier one
IndexKeys(pairs) == {pairs[i][1] : i \in 1 .. Len(pairs)}

IndexGet(pairs, partition) ==
    LET last == CHOOSE i \in 1 .. Len(pairs) :
                    /\ pairs[i][1] = partition
                    /\ \A j \in (i + 1) .. Len(pairs) : pairs[j][1] # partition
    IN pairs[last][2]

\* What a lookup can come to: a row, no row, a panic of the calling task, or
\* an unsigned subtraction below zero (a panic in a build with overflow
\* checks, a wrapped bound and a search that never ends in one without)
Found(row) == [kind |-> "found", row |-> Some(row)]
NotFound == [kind |-> "none", row |-> None]
Panics == [kind |-> "panic", row |-> None]
Underflows == [kind |-> "underflow", row |-> None]

\* binary_search_row_in_file: the loop.  Row number n is read at byte
\* n * row_byte_size of the file, the partition index at the head of the file
\* notwithstanding, and the buffer of one read is handed to the next
RECURSIVE SearchLoop(_, _, _, _, _)
SearchLoop(primary_key, bytes, left_row_number, right_row_number, row_bytes) ==
    IF left_row_number > right_row_number THEN NotFound
    ELSE
        LET current_row_number == (left_row_number + right_row_number) \div 2
            read == ReadExactAt(bytes, row_bytes, current_row_number * row_byte_size)
            current_row == decode_row(read)
        IN IF current_row = None THEN Panics
           ELSE IF StrLess(current_row[1].primary_key, primary_key)
           THEN SearchLoop(primary_key, bytes, current_row_number + 1,
                           right_row_number, read)
           ELSE IF StrLess(primary_key, current_row[1].primary_key)
           THEN IF current_row_number = 0 THEN Underflows
                ELSE SearchLoop(primary_key, bytes, left_row_number,
                                current_row_number - 1, read)
           ELSE Found(current_row[1])

\* binary_search_row_in_file
binary_search_row_in_file(primary_key, partition, bytes, partition_index, num_of_rows) ==
    IF partition \notin IndexKeys(partition_index) THEN NotFound
    ELSE
        LET keys == IndexKeys(partition_index)
            is_max == \A q \in keys : q <= partition
        IN IF is_max /\ num_of_rows = 0 THEN Underflows
           ELSE IF ~is_max /\ (partition + 1) \notin keys THEN Panics
           ELSE SearchLoop(primary_key, bytes,
                           IndexGet(partition_index, partition),
                           IF is_max THEN num_of_rows - 1
                           ELSE IndexGet(partition_index, partition + 1),
                           Zeros(row_byte_size))

\* read_row_from_sstable: the body of its loop for one segment file
SearchSegment(primary_key, partition, file) ==
    LET header == ReadExactAt(file.bytes, Zeros(file.name[1]), 0)
        partition_index == ParsePartitionIndex(header)
    IN IF partition_index = None THEN Panics
       ELSE binary_search_row_in_file(primary_key, partition, file.bytes,
                                      partition_index[1], file.name[2])

\* read_row_from_sstable over the segment files of the directory, newest
\* first.  Files of one timestamp are visited in the order read_dir lists
\* them, which is any order: every outcome some order gives is returned
read_row_from_sstable(primary_key, partition, directory) ==
    LET outcome(f) == SearchSegment(primary_key, partition, f)
        decisive == {f \in directory : outcome(f) # NotFound}
        newest == {f \in decisive : \A g \in decisive : g.name[3] <= f.name[3]}
    IN IF decisive = {} THEN {NotFound} ELSE {outcome(f) : f \in newest}

(* ------------------------------------------------------------------ *)
(* Commit log records                                                  *)
(* ------------------------------------------------------------------ *)

\* CommitLog::write_insert: the bytes of one record
insert_record(row) == <<1>> \o encode_row(row) \o <<NEWLINE>>

\* split_by_newline
RECURSIVE SplitLines(_, _)
SplitLines(data, current_line) ==
    IF data = <<>>
    THEN IF current_line = <<>> THEN <<>> ELSE <<current_line>>
    ELSE IF Head(data) = NEWLINE
    THEN IF current_line = <<>> THEN SplitLines(Tail(data), <<>>)
         ELSE <<current_line>> \o SplitLines(Tail(data), <<>>)
    ELSE SplitLines(Tail(data), Append(current_line, Head(data)))

split_by_newline(data) == SplitLines(data, <<>>)

\* replay_commit_logs: the memtable rebuilt from the operations of one log,
\* None where decoding an operation panics
RECURSIVE ReplayOperations(_, _)
ReplayOperations(byte_operations, memtable) ==
    IF byte_operations = <<>> THEN Some(memtable)
    ELSE
        LET operation_bytes == Head(byte_operations)
            body == Tail(operation_bytes)
        IN IF operation_bytes[1] = 1
           THEN IF decode_row(body) = None THEN None
                ELSE ReplayOperations(Tail(byte_operations),
                        memtable_insert(memtable, decode_row(body)[1], TRUE, 0))
           ELSE IF operation_bytes[1] = 2
           THEN IF Len(body) < TIMESTAMP_SIZE
                    \/ ~ValidUtf8(SubSeq(body, TIMESTAMP_SIZE + 1, Len(body)))
                THEN None
                ELSE ReplayOperations(Tail(byte_operations),
                        memtable_delete(memtable,
                            SubSeq(body, TIMESTAMP_SIZE + 1, Len(body)),
                            Some(BytesToNat(SubSeq(body, 1, TIMESTAMP_SIZE))), 0))
           ELSE None

(* ------------------------------------------------------------------ *)
(* The server: partition threads, their tables and the two directories *)
(* ------------------------------------------------------------------ *)

\* Bounds of the exploration
MaxTime == 1
MaxInserts == 2
MaxDeletes == 1
MaxGets == 1
MaxCrashes == 1
MaxFailures == 1
MaxTransactions == 2
MaxTxOperations == 2
MaxBatch == 2
MaxSchemaChanges == 2

\* Requests of the clients: two keys of the partition of thread 1, and the
\* column values written outside and inside a transaction
KeyB == [hash_key |-> HashB, sort_key |-> Varchar(<<97>>)]
KeyW == [hash_key |-> HashW, sort_key |-> Varchar(<<>>)]
Keys == {KeyB, KeyW}
\* A key of the partition of thread 0 (its hash is 3380823198), which a
\* request may carry to any thread
KeyA == [hash_key |-> <<0, 0, 0, 1>>, sort_key |-> Varchar(<<97>>)]
\* Two keys of the partition of thread 1 with a colon in them: "b" with the
\* sort key ":", and "b:" with the empty sort key
KeyC == [hash_key |-> HashB, sort_key |-> Varchar(<<COLON>>)]
KeyD == [hash_key |-> HashC, sort_key |-> Varchar(<<>>)]
ValueX == Varchar(<<120>>)
ValueY == Varchar(<<121>>)
ClientValues == {ValueX}
TransactionValues == {ValueY}

\* The one table of the model, by the name of its schema
TableName == "t"

\* The compaction thread between two rounds of compaction_main
CompactionSleeping ==
    [pc |-> "sleeping",             \* "loading", "opening", "index", "rows",
                                    \* "unlinking", "panicked"
     bucket |-> <<>>,               \* [name, file_size] of the bucket's files
     at |-> 0,                      \* the file the loop over the bucket is at
     memtable |-> MemtableDefault,  \* the memtable the rows are loaded into
     name |-> <<>>, ino |-> 0,      \* the output file
     failed |-> FALSE,              \* write_to_disk of the output returned Err
     source |-> {},                 \* history: the rows the inputs were written from
     inputs |-> {}]                 \* history: the segments when the round began

\* The partition tag in the name of a commit log, gen_range(0 .. max
\* partition), decides which thread replays the log at the next start.  The
\* model keeps of the tag the thread that owns it, and draws that thread when
\* a start first reads the directory; until then the owner is Unobserved.
\* The tags drawn within one millisecond are taken to differ, so that a log
\* is identified by its serial number
Unobserved == NumThreads

VARIABLES
    now,            \* millis_from_epoch()
    status,         \* per thread: "starting", "running", "panicked", "hung"
    memtable,       \* per thread: Table.memtable
    commit_log,     \* per thread: Table.commit_log, an index into handles
    handles,        \* the CommitLog structs behind the Arc<Mutex<..>> handles
    commit_logs,    \* the commit log directory: [serial, owner, millis, bytes]
    sstables,       \* the SSTable directory: [name, ino, bytes]
    next_ino,       \* next file identity and next log serial number
    tasks,          \* flush_memtable_to_sstable tasks spawned and not finished
    manager,        \* per thread: TransactionManager
    queue,          \* per thread: the unbounded channel of ThreadMessages
    handler,        \* per thread: the request that holds the manager lock
    next_tid,       \* next transaction id
    used,           \* how much of each bound the run has used
    acked,          \* history: per key, the last non-transactional write answered
    last_get,       \* history: the last non-transactional Get answered
    last_flush,     \* history: the last flush task that reached the log's delete
    tx_log,         \* history: per transaction, what was buffered, voted, applied
    tables,         \* per thread: the names in the table registry
    catalog,        \* the schema catalog file: one line per schema written
    compaction,     \* the compaction thread: where it is in compact_bucket
    shutdown,       \* the main task after SIGINT, and who acknowledged
    last_reply      \* history: the last request answered otherwise than above,
                    \* or the last schema request that changed the registry

vars == <<now, status, memtable, commit_log, handles, commit_logs, sstables,
          next_ino, tasks, manager, queue, handler, next_tid, used, acked,
          last_get, last_flush, tx_log, tables, catalog, compaction, shutdown,
          last_reply>>

\* What the requests and tasks of one table leave alone: the registry, the
\* catalog, the compaction thread and the shutdown
rest == <<tables, catalog, compaction, shutdown, last_reply>>

\* The thread a request for hash_key is served by: the partition is the hash
\* modulo total_number_of_partitions, which is the number of threads, and
\* thread t holds the partitions p with p % num_of_threads = t
ThreadOf(hash_key) == get_hash_key_target_partition(hash_key, NumThreads) % NumThreads

\* A server without the check: every thread takes every hash key
NoPartitionCheck(hash_key, t) == TRUE

\* validate_hash_key_partition passes on thread t: the partition of the hash
\* key, taken modulo total_number_of_partitions, is in thread_context.partitions,
\* the partitions below num_of_partitions that are t modulo the number of threads
validate_hash_key_partition(hash_key, t) ==
    LET partition == get_hash_key_target_partition(hash_key, NumThreads)
    IN /\ partition \in 0 .. (NUM_OF_PARTITIONS - 1)
       /\ partition % NumThreads = t

\* TransactionManager::new
TransactionManagerNew == [transactions |-> {}, coordinated_transactions |-> {}]

\* Row::new: the timestamp is the clock, the version starts at 1
RowNew(hash_key, sort_key, values) ==
    RowNewWithTimestamp(hash_key, sort_key, values, now)

\* A thread takes up a client request or polls a task it has not polled yet
Alive(t) == status[t] \in {"running", "hung"}

Unpolled(t) == \E i \in 1 .. Len(tasks) : tasks[i].thread = t /\ tasks[i].pc = "spawned"

\* The manager lock of thread t is free and every task spawned on t before
\* has been polled: a handler of a client request can run
Serving(t) == status[t] = "running" /\ handler[t] = None /\ ~Unpolled(t)

\* A panic unwinds thread t: its tasks, its receiver and the messages in it
\* are dropped.  channels is what the channels hold when the panic happens
PanicWith(t, channels) ==
    /\ status' = [status EXCEPT ![t] = "panicked"]
    /\ handler' = [handler EXCEPT ![t] = None]
    /\ tasks' = SelectSeq(tasks, LAMBDA k : k.thread # t)
    /\ queue' = [channels EXCEPT ![t] = <<>>]

Panic(t) == PanicWith(t, queue)

\* OpenOptions::new().create(true).write(true).open(name): the directory and
\* the identity of the file opened; an existing file is opened as it is
HasFile(directory, name) == \E f \in directory : f.name = name

OpenCreate(directory, name) ==
    IF HasFile(directory, name) THEN directory
    ELSE directory \cup {[name |-> name, ino |-> next_ino, bytes |-> <<>>]}

OpenedIno(directory, name) ==
    IF HasFile(directory, name)
    THEN (CHOOSE f \in directory : f.name = name).ino
    ELSE next_ino

\* write_all_at through an open file: the write reaches the directory entry of
\* that identity, if the file is still linked
WriteThrough(directory, ino, data, offset) ==
    {IF f.ino = ino THEN [f EXCEPT !.bytes = WriteAt(f.bytes, data, offset)] ELSE f :
        f \in directory}

\* CommitLog::open_new: the file created now, and the struct
CommitLogFile == [serial |-> next_ino, owner |-> Unobserved, millis |-> now,
                  bytes |-> <<>>]

CommitLogOpenNew ==
    [file_path |-> next_ino, file |-> Some(next_ino), file_offset |-> 0,
     closed |-> FALSE]

\* write_all_at through the open file of a commit log
WriteLog(directory, serial, data, offset) ==
    {IF f.serial = serial THEN [f EXCEPT !.bytes = WriteAt(f.bytes, data, offset)]
     ELSE f : f \in directory}

\* The server after run_listener_threads started it on empty directories:
\* every thread found no commit log to replay, opened the log of its table,
\* and is in the loop of thread_main
Init ==
    /\ now = 0
    /\ status = [t \in Threads |-> "running"]
    /\ memtable = [t \in Threads |-> MemtableDefault]
    /\ commit_log = [t \in Threads |-> t + 1]
    /\ handles = [i \in 1 .. NumThreads |->
                    [file_path |-> i, file |-> Some(i), file_offset |-> 0,
                     closed |-> FALSE]]
    /\ commit_logs = {[serial |-> i, owner |-> Unobserved, millis |-> 0,
                       bytes |-> <<>>] : i \in 1 .. NumThreads}
    /\ sstables = {}
    /\ next_ino = NumThreads + 1
    /\ tasks = <<>>
    /\ manager = [t \in Threads |-> TransactionManagerNew]
    /\ queue = [t \in Threads |-> <<>>]
    /\ handler = [t \in Threads |-> None]
    /\ next_tid = 1
    /\ used = [inserts |-> 0, deletes |-> 0, gets |-> 0, crashes |-> 0,
               failures |-> 0, transactions |-> 0, tx_operations |-> 0,
               schema_changes |-> 0]
    /\ acked = [k \in Keys \cup {KeyA} |-> None]
    /\ last_get = None
    /\ last_flush = None
    /\ tx_log = <<>>
    /\ tables = [t \in Threads |-> {TableName}]
    /\ catalog = <<TableName>>
    /\ compaction = CompactionSleeping
    /\ shutdown = [main |-> "running", sent |-> {}, at |-> 0, acknowledged |-> {}]
    /\ last_reply = None

(* ------------------------------------------------------------------ *)
(* Start of a partition thread, the clock, a crash of the process       *)
(* ------------------------------------------------------------------ *)

\* monoio::spawn(flush_memtable_to_sstable(memtable, commit_log, ..)) on thread t
FlushTask(t, full_memtable, log) ==
    [thread |-> t, memtable |-> full_memtable, commit_log |-> log,
     pc |-> "spawned", name |-> <<>>, ino |-> 0, failed |-> FALSE,
     ctrl_c |-> FALSE]      \* the flush the CtrlC arm of thread_main awaits

\* open_for_startup: the logs in ascending order of their timestamps.  Logs
\* of one timestamp come in the order read_dir lists them; each log is
\* replayed into a memtable of its own, so that order decides nothing
RECURSIVE StartupLogs(_)
StartupLogs(files) ==
    IF files = {} THEN <<>>
    ELSE LET first == CHOOSE f \in files : \A g \in files :
                        \/ f.millis < g.millis
                        \/ f.millis = g.millis /\ f.serial <= g.serial
         IN <<first>> \o StartupLogs(files \ {first})

\* The directory once the owners of the logs not read before are drawn
Observed(directory, owners) ==
    {IF f.owner = Unobserved THEN [f EXCEPT !.owner = owners[f.serial]] ELSE f :
        f \in directory}

\* thread_main up to its loop: replay_commit_logs for the logs tagged with a
\* partition of this thread, one memtable and one flush task per log, then a
\* fresh memtable, CommitLog::open_new and a new TransactionManager
ThreadStart(t) ==
    /\ status[t] = "starting"
    /\ \E owners \in [{f.serial : f \in {g \in commit_logs : g.owner = Unobserved}}
                        -> Threads] :
       LET directory == Observed(commit_logs, owners)
           logs == StartupLogs({f \in directory : f.owner = t})
           replayed == [i \in 1 .. Len(logs) |->
                            ReplayOperations(split_by_newline(logs[i].bytes),
                                             MemtableDefault)]
           opened == [i \in 1 .. Len(logs) |->
                            [file_path |-> logs[i].serial,
                             file |-> Some(logs[i].serial),
                             file_offset |-> Len(logs[i].bytes),
                             closed |-> FALSE]]
       IN IF \E i \in 1 .. Len(logs) : replayed[i] = None
          THEN /\ Panic(t)
               /\ commit_logs' = directory
               /\ UNCHANGED <<memtable, commit_log, handles, next_ino, manager>>
          ELSE /\ status' = [status EXCEPT ![t] = "running"]
               /\ handles' = handles \o opened \o <<CommitLogOpenNew>>
               /\ tasks' = tasks \o [i \in 1 .. Len(logs) |->
                                FlushTask(t, replayed[i][1], Len(handles) + i)]
               /\ commit_logs' = directory \cup {CommitLogFile}
               /\ next_ino' = next_ino + 1
               /\ commit_log' = [commit_log EXCEPT ![t] = Len(handles) + Len(logs) + 1]
               /\ memtable' = [memtable EXCEPT ![t] = MemtableDefault]
               /\ manager' = [manager EXCEPT ![t] = TransactionManagerNew]
               /\ UNCHANGED <<handler, queue>>
    /\ UNCHANGED <<now, sstables, next_tid, used, acked, last_get, last_flush, tx_log>>
    /\ UNCHANGED rest

\* A millisecond passes
Tick ==
    /\ now < MaxTime
    /\ now' = now + 1
    /\ UNCHANGED <<status, memtable, commit_log, handles, commit_logs, sstables,
                   next_ino, tasks, manager, queue, handler, next_tid, used,
                   acked, last_get, last_flush, tx_log>>
    /\ UNCHANGED rest

\* The process is killed and started again: what the threads held in memory
\* is gone, the two directories stay as they are
Crash ==
    /\ used.crashes < MaxCrashes
    /\ \E t \in Threads : status[t] # "starting"
    /\ status' = [t \in Threads |-> "starting"]
    /\ memtable' = [t \in Threads |-> MemtableDefault]
    /\ commit_log' = [t \in Threads |-> 0]
    /\ handles' = <<>>
    /\ tasks' = <<>>
    /\ manager' = [t \in Threads |-> TransactionManagerNew]
    /\ queue' = [t \in Threads |-> <<>>]
    /\ handler' = [t \in Threads |-> None]
    /\ used' = [used EXCEPT !.crashes = @ + 1]
    /\ acked' = [k \in DOMAIN acked |->
                    IF acked[k] = None THEN None
                    ELSE Some([acked[k][1] EXCEPT !.crashed = TRUE])]
    /\ UNCHANGED <<now, commit_logs, sstables, next_ino, next_tid, last_get,
                   last_flush, tx_log>>
    /\ UNCHANGED rest

(* ------------------------------------------------------------------ *)
(* History of the transactions, kept for the properties                *)
(* ------------------------------------------------------------------ *)

\* The history of a transaction that has just begun
TransactionHistory(coordinator, outcome) ==
    [coordinator |-> coordinator,
     outcome |-> outcome,       \* "active", "committing", "committed",
                                \* "aborted", "client_abort", "lost"
     buffered |-> {},           \* <<thread, kind, key>> of the operations buffered
     applied |-> {},            \* <<thread, kind, key>> of the operations applied
     reads |-> {},              \* keys a Get of the transaction returned a row for
     recorded |-> {},           \* keys whose version the transaction recorded
     overwritten |-> {},        \* recorded keys that someone else wrote since
     conflicts |-> {},          \* keys read, then written by an insert answered
                                \* before the commit was requested
     lost_update |-> FALSE,     \* an operation was applied over such a write
     no_vote |-> FALSE,         \* a can_commit of the transaction returned false
     aborted_to |-> {}]         \* threads TransactionAborted was sent to

\* A write by writer (0: a request outside any transaction) was applied to
\* the memtable row of key
NoteForeign(log, key, writer) ==
    [tid \in DOMAIN log |->
        IF tid = writer \/ key \notin log[tid].recorded
                \/ log[tid].outcome \notin {"active", "committing", "committed"}
                \/ log[tid].applied # {}
        THEN log[tid]
        ELSE [log[tid] EXCEPT !.overwritten = @ \cup {key}]]

\* A write to key by writer was answered: it precedes every CommitTransaction
\* not yet requested, and conflicts with the transactions that have read key
NoteConflict(log, key, writer) ==
    [tid \in DOMAIN log |->
        IF tid = writer \/ log[tid].outcome # "active" \/ key \notin log[tid].reads
        THEN log[tid]
        ELSE [log[tid] EXCEPT !.conflicts = @ \cup {key}]]

(* ------------------------------------------------------------------ *)
(* Requests outside a transaction: execute_operation with no           *)
(* transaction id, under handle_operation's manager lock               *)
(* ------------------------------------------------------------------ *)

\* Insert up to the end of CommitLog::write_insert: validation, Row::new, and
\* the record written at the log's offset.  A log whose file was taken by
\* delete() makes the unwrap in write_insert panic
InsertStart(t, key, values) ==
    /\ Serving(t)
    /\ validate_hash_key_partition(key.hash_key, t)
    /\ used.inserts < MaxInserts
    /\ used' = [used EXCEPT !.inserts = @ + 1]
    /\ acked' = [acked EXCEPT ![key] = None]
    /\ LET row == RowNew(key.hash_key, key.sort_key, values)
           log == handles[commit_log[t]]
       IN IF log.file = None
          THEN Panic(t) /\ UNCHANGED <<handles, commit_logs>>
          ELSE /\ commit_logs' = WriteLog(commit_logs, log.file[1],
                                          insert_record(row), log.file_offset)
               /\ handles' = [handles EXCEPT ![commit_log[t]].file_offset =
                                    @ + Len(insert_record(row))]
               /\ handler' = [handler EXCEPT ![t] =
                    Some([kind |-> "Insert", key |-> key, row |-> row,
                          pc |-> "logged", logged |-> TRUE, applied |-> FALSE,
                          result |-> TRUE,
                          live |-> acked[key] # None /\ acked[key][1].kind = "Insert"])]
               /\ UNCHANGED <<status, tasks, queue>>
    /\ UNCHANGED <<now, memtable, commit_log, sstables, next_ino, manager,
                   next_tid, last_get, last_flush, tx_log>>
    /\ UNCHANGED rest

\* Table::flush_memtable_to_disk on thread t, whose memtable is full: the log
\* is marked closed, a new log is opened, log and memtable are swapped for
\* fresh ones and the flush of the full memtable is spawned
flush_memtable_to_disk(t, full) ==
    /\ handles' = Append([handles EXCEPT ![commit_log[t]].closed = TRUE],
                         CommitLogOpenNew)
    /\ commit_logs' = commit_logs \cup {CommitLogFile}
    /\ next_ino' = next_ino + 1
    /\ commit_log' = [commit_log EXCEPT ![t] = Len(handles) + 1]
    /\ memtable' = [memtable EXCEPT ![t] = MemtableDefault]
    /\ tasks' = Append(tasks, FlushTask(t, full, commit_log[t]))

\* Insert from memtable.insert(row, false) to the end of execute_operation
InsertApply(t) ==
    /\ status[t] = "running"
    /\ handler[t] # None
    /\ handler[t][1].kind = "Insert" /\ handler[t][1].pc = "logged"
    /\ LET inserted == memtable_insert(memtable[t], handler[t][1].row, FALSE, now)
       IN IF max_size_reached(inserted)
          THEN flush_memtable_to_disk(t, inserted)
          ELSE /\ memtable' = [memtable EXCEPT ![t] = inserted]
               /\ UNCHANGED <<commit_log, handles, commit_logs, next_ino, tasks>>
    /\ handler' = [handler EXCEPT ![t] =
            Some([handler[t][1] EXCEPT !.pc = "applied", !.applied = TRUE])]
    /\ tx_log' = NoteForeign(tx_log, handler[t][1].key, 0)
    /\ UNCHANGED <<now, status, sstables, manager, queue, next_tid, used, acked,
                   last_get, last_flush>>
    /\ UNCHANGED rest

\* Delete: memtable.delete(&primary_key, None), nothing else
DeleteApply(t, key) ==
    /\ Serving(t)
    /\ validate_hash_key_partition(key.hash_key, t)
    /\ used.deletes < MaxDeletes
    /\ used' = [used EXCEPT !.deletes = @ + 1]
    /\ acked' = [acked EXCEPT ![key] = None]
    /\ LET primary_key == PrimaryKey(key.hash_key, key.sort_key)
           val == memtable_delete_result(memtable[t], primary_key, None)
       IN /\ memtable' = [memtable EXCEPT ![t] =
                            memtable_delete(@, primary_key, None, now)]
          /\ handler' = [handler EXCEPT ![t] =
                Some([kind |-> "Delete", key |-> key, row |-> None,
                      pc |-> "applied", logged |-> FALSE, applied |-> val,
                      result |-> val,
                      \* history: the last write answered for the key
                      \* was an Insert, so that its row is live
                      live |-> acked[key] # None /\ acked[key][1].kind = "Insert"])]
          /\ tx_log' = IF val THEN NoteForeign(tx_log, key, 0) ELSE tx_log
    /\ UNCHANGED <<now, status, commit_log, handles, commit_logs, sstables,
                   next_ino, tasks, manager, queue, next_tid, last_get, last_flush>>
    /\ UNCHANGED rest

\* The response of an Insert or a Delete is written to the client
Respond(t) ==
    /\ status[t] = "running"
    /\ handler[t] # None
    /\ handler[t][1].kind \in {"Insert", "Delete"} /\ handler[t][1].pc = "applied"
    /\ LET h == handler[t][1]
       IN /\ acked' = [acked EXCEPT ![h.key] =
                Some([kind |-> h.kind,
                      values |-> IF h.kind = "Insert" THEN h.row.values ELSE Null,
                      result |-> h.result, logged |-> h.logged,
                      applied |-> h.applied, crashed |-> FALSE,
                      live |-> h.live])]
          /\ tx_log' = IF h.kind = "Insert"
                       THEN NoteConflict(tx_log, h.key, 0) ELSE tx_log
    /\ handler' = [handler EXCEPT ![t] = None]
    /\ UNCHANGED <<now, status, memtable, commit_log, handles, commit_logs,
                   sstables, next_ino, tasks, manager, queue, next_tid, used,
                   last_get, last_flush>>
    /\ UNCHANGED rest

\* What Get finds for key on thread t: the memtable, then the segment files
Lookup(t, key) ==
    LET primary_key == PrimaryKey(key.hash_key, key.sort_key)
        val == memtable_get(memtable[t], primary_key)
    IN IF val # None THEN {Found(val[1])}
       ELSE read_row_from_sstable(primary_key,
                get_hash_key_target_partition(key.hash_key, NumThreads), sstables)

\* The task that runs the lookup panics, or never returns and keeps the locks
LookupFails(t, outcome) ==
    \/ /\ outcome.kind \in {"panic", "underflow"}
       /\ Panic(t)
    \/ /\ outcome.kind = "underflow"
       /\ status' = [status EXCEPT ![t] = "hung"]
       /\ handler' = [handler EXCEPT ![t] = Some([kind |-> "Hung", pc |-> "hung"])]
       /\ UNCHANGED <<tasks, queue>>

\* Get outside a transaction
Get(t, key) ==
    /\ Serving(t)
    /\ validate_hash_key_partition(key.hash_key, t)
    /\ used.gets < MaxGets
    /\ used' = [used EXCEPT !.gets = @ + 1]
    /\ \E outcome \in Lookup(t, key) :
        \/ /\ outcome.kind \in {"found", "none"}
           /\ last_get' = Some([key |-> key,
                    got |-> IF outcome.row = None THEN None
                            ELSE Some(outcome.row[1].values),
                    expect |-> acked[key],
                    settled |-> /\ tasks = <<>>
                                /\ \A u \in Threads : status[u] # "starting"])
           /\ UNCHANGED <<status, handler, tasks, queue>>
        \/ /\ LookupFails(t, outcome)
           /\ UNCHANGED last_get
    /\ UNCHANGED <<now, memtable, commit_log, handles, commit_logs, sstables,
                   next_ino, manager, next_tid, acked, last_flush, tx_log>>
    /\ UNCHANGED rest

(* ------------------------------------------------------------------ *)
(* flush_memtable_to_sstable, one action for each stretch between two   *)
(* of its awaits                                                        *)
(* ------------------------------------------------------------------ *)

RemoveAt(seq, i) == SubSeq(seq, 1, i - 1) \o SubSeq(seq, i + 1, Len(seq))

Segment(task) == to_sstable_rows(task.memtable, NumThreads)

\* First poll of the task: to_sstable_rows and write_to_disk up to the open.
\* reduce(..).unwrap() panics when the memtable holds no row
FlushStart(i) ==
    /\ i \in 1 .. Len(tasks)
    /\ tasks[i].pc = "spawned"
    /\ Alive(tasks[i].thread)
    /\ IF tasks[i].memtable.rows = <<>>
       THEN Panic(tasks[i].thread)
       ELSE /\ tasks' = [tasks EXCEPT ![i].pc = "opening",
                            ![i].name = SSTableFileName(Segment(tasks[i]).partition_index,
                                                        tasks[i].memtable.rows, now)]
            /\ UNCHANGED <<status, handler, queue>>
    /\ UNCHANGED <<now, memtable, commit_log, handles, commit_logs, sstables,
                   next_ino, manager, next_tid, used, acked, last_get,
                   last_flush, tx_log>>
    /\ UNCHANGED rest

\* write_to_disk: the segment file is opened, created if there is none
FlushOpen(i) ==
    /\ i \in 1 .. Len(tasks)
    /\ tasks[i].pc = "opening"
    /\ Alive(tasks[i].thread)
    /\ sstables' = OpenCreate(sstables, tasks[i].name)
    /\ next_ino' = IF HasFile(sstables, tasks[i].name) THEN next_ino ELSE next_ino + 1
    /\ tasks' = [tasks EXCEPT ![i].pc = "opened",
                              ![i].ino = OpenedIno(sstables, tasks[i].name)]
    /\ UNCHANGED <<now, status, memtable, commit_log, handles, commit_logs,
                   manager, queue, handler, next_tid, used, acked, last_get,
                   last_flush, tx_log>>
    /\ UNCHANGED rest

\* write_to_disk: the partition index is written at offset 0
FlushWriteIndex(i) ==
    /\ i \in 1 .. Len(tasks)
    /\ tasks[i].pc = "opened"
    /\ Alive(tasks[i].thread)
    /\ sstables' = WriteThrough(sstables, tasks[i].ino,
                        partition_index_bytes(Segment(tasks[i]).partition_index), 0)
    /\ tasks' = [tasks EXCEPT ![i].pc = "index"]
    /\ UNCHANGED <<now, status, memtable, commit_log, handles, commit_logs,
                   next_ino, manager, queue, handler, next_tid, used, acked,
                   last_get, last_flush, tx_log>>
    /\ UNCHANGED rest

\* write_to_disk: the rows are written after the partition index, then sync_all
FlushWriteRows(i) ==
    /\ i \in 1 .. Len(tasks)
    /\ tasks[i].pc = "index"
    /\ Alive(tasks[i].thread)
    /\ sstables' = WriteThrough(sstables, tasks[i].ino,
                        encoded_rows(Segment(tasks[i]).rows), tasks[i].name[1])
    /\ tasks' = [tasks EXCEPT ![i].pc = "written"]
    /\ UNCHANGED <<now, status, memtable, commit_log, handles, commit_logs,
                   next_ino, manager, queue, handler, next_tid, used, acked,
                   last_get, last_flush, tx_log>>
    /\ UNCHANGED rest

\* write_to_disk returns Err: the open or one of the two writes failed.
\* flush_memtable_to_sstable logs the error and goes on
FlushFail(i) ==
    /\ i \in 1 .. Len(tasks)
    /\ tasks[i].pc \in {"opening", "opened", "index"}
    /\ Alive(tasks[i].thread)
    /\ used.failures < MaxFailures
    /\ used' = [used EXCEPT !.failures = @ + 1]
    /\ tasks' = [tasks EXCEPT ![i].pc = "written", ![i].failed = TRUE]
    /\ UNCHANGED <<now, status, memtable, commit_log, handles, commit_logs,
                   sstables, next_ino, manager, queue, handler, next_tid, acked,
                   last_get, last_flush, tx_log>>
    /\ UNCHANGED rest

\* flush_memtable_to_sstable after write_to_disk: commit_log.delete().  Both
\* file.take().unwrap() and remove_file(..).unwrap() can panic.  When the
\* CtrlC arm awaited the flush, sender.send(()) follows
FlushDeleteLog(i) ==
    /\ i \in 1 .. Len(tasks)
    /\ tasks[i].pc = "written"
    /\ Alive(tasks[i].thread)
    /\ LET log == handles[tasks[i].commit_log]
       IN IF log.file = None \/ \A f \in commit_logs : f.serial # log.file_path
          THEN /\ Panic(tasks[i].thread)
               /\ handles' = [handles EXCEPT ![tasks[i].commit_log].file = None]
               /\ UNCHANGED <<commit_logs, last_flush, shutdown>>
          ELSE /\ handles' = [handles EXCEPT ![tasks[i].commit_log].file = None]
               /\ commit_logs' = {f \in commit_logs : f.serial # log.file_path}
               /\ tasks' = RemoveAt(tasks, i)
               /\ last_flush' = Some([written |-> ~tasks[i].failed,
                                      log |-> log.file_path])
               /\ shutdown' = IF tasks[i].ctrl_c
                              THEN [shutdown EXCEPT !.acknowledged =
                                        @ \cup {tasks[i].thread}]
                              ELSE shutdown
               /\ UNCHANGED <<status, handler, queue>>
    /\ UNCHANGED <<now, memtable, commit_log, sstables, next_ino, manager,
                   next_tid, used, acked, last_get, tx_log>>
    /\ UNCHANGED <<tables, catalog, compaction, last_reply>>

(* ------------------------------------------------------------------ *)
(* Transactions: the buffer of one transaction on one thread           *)
(* ------------------------------------------------------------------ *)

\* Transaction::new
TransactionNew(transaction_id) ==
    [id |-> transaction_id, affected_rows |-> {}, operations |-> <<>>]

\* Transaction::add_affected_row without the contains_key test: the version
\* recorded last is kept
add_affected_row_overwriting(transaction, row) ==
    [transaction EXCEPT
        !.affected_rows = {a \in @ : a[1] # row.primary_key}
                            \cup {<<row.primary_key, row.version>>}]

\* Transaction::add_affected_row: the version recorded first is kept
add_affected_row(transaction, row) ==
    IF \E a \in transaction.affected_rows : a[1] = row.primary_key THEN transaction
    ELSE [transaction EXCEPT
            !.affected_rows = @ \cup {<<row.primary_key, row.version>>}]

\* Transaction::get_for_update: row is an Option
get_for_update(transaction, row) ==
    IF row = None THEN transaction ELSE add_affected_row(transaction, row[1])

\* Transaction::insert
transaction_insert(transaction, key, row, table_memtable) ==
    LET replaced_row == memtable_get(table_memtable, row.primary_key)
        noted == IF replaced_row # None
                 THEN add_affected_row(transaction, replaced_row[1])
                 ELSE transaction
    IN [noted EXCEPT !.operations =
            Append(@, [kind |-> "Insert", key |-> key, row |-> Some(row)])]

\* Transaction::delete: the value it returns, and the transaction after it
transaction_delete_result(primary_key, table_memtable) ==
    memtable_get(table_memtable, primary_key) # None

\* Transaction::delete that buffers the Delete and answers true whether or
\* not the memtable holds a live row of the key
transaction_delete_unconditional(transaction, key, primary_key, table_memtable) ==
    LET deleted_row == memtable_get(table_memtable, primary_key)
        noted == IF deleted_row = None THEN transaction
                 ELSE add_affected_row(transaction, deleted_row[1])
    IN [noted EXCEPT !.operations =
            Append(@, [kind |-> "Delete", key |-> key, row |-> None])]

transaction_delete(transaction, key, primary_key, table_memtable) ==
    LET deleted_row == memtable_get(table_memtable, primary_key)
    IN IF deleted_row = None THEN transaction
       ELSE [add_affected_row(transaction, deleted_row[1]) EXCEPT !.operations =
                Append(@, [kind |-> "Delete", key |-> key, row |-> None])]

\* Transaction::can_commit
can_commit(transaction, table_memtable) ==
    \A a \in transaction.affected_rows :
        LET memtable_row == memtable_get(table_memtable, a[1])
        IN memtable_row # None /\ memtable_row[1].version = a[2]

\* Transaction::commit: the operations in the order they were buffered.  The
\* result is the memtable of the table and the full memtables swapped out on
\* the way, each handed to a flush task
RECURSIVE CommitOperations(_, _, _, _)
CommitOperations(operations, table_memtable, full_memtables, millis) ==
    IF operations = <<>>
    THEN [memtable |-> table_memtable, full_memtables |-> full_memtables]
    ELSE LET operation == Head(operations)
             inserted == memtable_insert(table_memtable, operation.row[1], FALSE, millis)
             deleted == memtable_delete(table_memtable,
                            PrimaryKey(operation.key.hash_key, operation.key.sort_key),
                            None, millis)
         IN IF operation.kind = "Insert"
            THEN IF max_size_reached(inserted)
                 THEN CommitOperations(Tail(operations), MemtableDefault,
                                       Append(full_memtables, inserted), millis)
                 ELSE CommitOperations(Tail(operations), inserted, full_memtables, millis)
            ELSE CommitOperations(Tail(operations), deleted, full_memtables, millis)

transaction_commit(transaction, table_memtable, millis) ==
    CommitOperations(transaction.operations, table_memtable, <<>>, millis)

(* ------------------------------------------------------------------ *)
(* TransactionManager, and the channels between the threads            *)
(* ------------------------------------------------------------------ *)

HasTransaction(t, transaction_id) ==
    \E x \in manager[t].transactions : x.id = transaction_id

TransactionOf(t, transaction_id) ==
    CHOOSE x \in manager[t].transactions : x.id = transaction_id

\* TransactionManager::add
manager_add(m, transaction_id) ==
    [m EXCEPT !.transactions =
        {x \in @ : x.id # transaction_id} \cup {TransactionNew(transaction_id)}]

\* TransactionManager::remove
manager_remove(m, transaction_id) ==
    [m EXCEPT !.transactions = {x \in @ : x.id # transaction_id}]

\* TransactionManager::add_coordinated, with the id it draws
add_coordinated(m, transaction_id) ==
    [m EXCEPT !.coordinated_transactions = @ \cup {transaction_id}]

\* TransactionManager::remove_coordinated, where it returns Ok
remove_coordinated(m, transaction_id) ==
    [m EXCEPT !.coordinated_transactions = @ \ {transaction_id}]

\* A remove_coordinated that fails only when the manager has no buffer for
\* the id
remove_coordinated_fails_without_buffer(m, transaction_id) ==
    /\ transaction_id \notin m.coordinated_transactions
    /\ \A x \in m.transactions : x.id # transaction_id

\* TransactionManager::remove_coordinated returns Err: the thread does not
\* coordinate the id
remove_coordinated_fails(m, transaction_id) ==
    transaction_id \notin m.coordinated_transactions

\* The transaction of the manager of thread t is replaced
PutTransaction(m, transaction) ==
    [m EXCEPT !.transactions = {x \in @ : x.id # transaction.id} \cup {transaction}]

\* The threads a coordinator sends to, in the order of the senders
Others(c) == SortedSeq(Threads \ {c})

\* sender.send(..).await.unwrap() panics when the receiving thread is gone
Gone(t) == status[t] = "panicked"

SendFails(c) == \E j \in Threads \ {c} : Gone(j)

\* The threads a fan-out of c reaches before the send that panics
Reached(c) ==
    {j \in Threads \ {c} : \A k \in Threads \ {c} : k <= j => ~Gone(k)}

Enqueue(channels, targets, message) ==
    [t \in Threads |->
        IF t \in targets THEN Append(channels[t], message) ELSE channels[t]]

ThreadMessage(kind, transaction_id, from) ==
    [kind |-> kind, tid |-> transaction_id, from |-> from]

\* A coordinator that fans out TransactionCommit whatever the votes were
DecisionMessageCommitOnly(decided, transaction_id, c) ==
    ThreadMessage("TransactionCommit", transaction_id, c)

\* CommitTransaction, once every vote is in: the message the coordinator
\* fans out
DecisionMessage(decided, transaction_id, c) ==
    IF decided THEN ThreadMessage("TransactionCommit", transaction_id, c)
    ELSE ThreadMessage("TransactionAborted", transaction_id, c)

(* ------------------------------------------------------------------ *)
(* Requests of a transaction                                           *)
(* ------------------------------------------------------------------ *)

\* The client of a transaction sends its operations before it asks for the
\* commit or the abort
Active(tid) == tid \in DOMAIN tx_log /\ tx_log[tid].outcome = "active"

\* BeginTransaction: the id (fresh: two draws of next_u64 are taken to
\* differ), the coordinator's own buffer, TransactionBegun to the others
BeginTransaction(c) ==
    /\ Serving(c)
    /\ used.transactions < MaxTransactions
    /\ used' = [used EXCEPT !.transactions = @ + 1]
    /\ next_tid' = next_tid + 1
    /\ manager' = [manager EXCEPT ![c] =
                        manager_add(add_coordinated(@, next_tid), next_tid)]
    /\ LET message == ThreadMessage("TransactionBegun", next_tid, c)
       IN IF SendFails(c)
          THEN /\ PanicWith(c, Enqueue(queue, Reached(c), message))
               /\ tx_log' = Append(tx_log, TransactionHistory(c, "lost"))
          ELSE /\ queue' = Enqueue(queue, Threads \ {c}, message)
               /\ tx_log' = Append(tx_log, TransactionHistory(c, "active"))
               /\ UNCHANGED <<status, handler, tasks>>
    /\ UNCHANGED <<now, memtable, commit_log, handles, commit_logs, sstables,
                   next_ino, acked, last_get, last_flush>>
    /\ UNCHANGED rest

\* Get with a transaction id: the lookup of Get, then get_for_update
TxGet(t, tid, key) ==
    /\ Serving(t)
    /\ validate_hash_key_partition(key.hash_key, t)
    /\ HasTransaction(t, tid)
    /\ Active(tid)
    /\ used.tx_operations < MaxTxOperations
    /\ used' = [used EXCEPT !.tx_operations = @ + 1]
    /\ \E outcome \in Lookup(t, key) :
        \/ /\ outcome.kind \in {"found", "none"}
           /\ manager' = [manager EXCEPT ![t] =
                PutTransaction(@, get_for_update(TransactionOf(t, tid), outcome.row))]
           /\ tx_log' = IF outcome.row = None THEN tx_log
                        ELSE [tx_log EXCEPT ![tid].reads = @ \cup {key},
                                            ![tid].recorded = @ \cup {key}]
           /\ UNCHANGED <<status, handler, tasks, queue>>
        \/ /\ LookupFails(t, outcome)
           /\ UNCHANGED <<manager, tx_log>>
    /\ UNCHANGED <<now, memtable, commit_log, handles, commit_logs, sstables,
                   next_ino, next_tid, acked, last_get, last_flush>>
    /\ UNCHANGED rest

\* Insert with a transaction id: Row::new and Transaction::insert
TxInsert(t, tid, key, values) ==
    /\ Serving(t)
    /\ validate_hash_key_partition(key.hash_key, t)
    /\ HasTransaction(t, tid)
    /\ Active(tid)
    /\ used.tx_operations < MaxTxOperations
    /\ used' = [used EXCEPT !.tx_operations = @ + 1]
    /\ LET row == RowNew(key.hash_key, key.sort_key, values)
       IN /\ manager' = [manager EXCEPT ![t] =
                PutTransaction(@, transaction_insert(TransactionOf(t, tid), key,
                                                     row, memtable[t]))]
          /\ tx_log' = [tx_log EXCEPT
                ![tid].buffered = @ \cup {<<t, "Insert", key>>},
                ![tid].recorded =
                    IF memtable_get(memtable[t], row.primary_key) # None
                    THEN @ \cup {key} ELSE @]
    /\ UNCHANGED <<now, status, memtable, commit_log, handles, commit_logs,
                   sstables, next_ino, tasks, queue, handler, next_tid, acked,
                   last_get, last_flush>>
    /\ UNCHANGED rest

\* Delete with a transaction id: Transaction::delete
TxDelete(t, tid, key) ==
    /\ Serving(t)
    /\ validate_hash_key_partition(key.hash_key, t)
    /\ HasTransaction(t, tid)
    /\ Active(tid)
    /\ used.tx_operations < MaxTxOperations
    /\ used' = [used EXCEPT !.tx_operations = @ + 1]
    /\ LET primary_key == PrimaryKey(key.hash_key, key.sort_key)
           val == transaction_delete_result(primary_key, memtable[t])
       IN /\ manager' = [manager EXCEPT ![t] =
                PutTransaction(@, transaction_delete(TransactionOf(t, tid), key,
                                                     primary_key, memtable[t]))]
          /\ tx_log' = IF ~val THEN tx_log
                       ELSE [tx_log EXCEPT
                                ![tid].buffered = @ \cup {<<t, "Delete", key>>},
                                ![tid].recorded = @ \cup {key}]
    /\ UNCHANGED <<now, status, memtable, commit_log, handles, commit_logs,
                   sstables, next_ino, tasks, queue, handler, next_tid, acked,
                   last_get, last_flush>>
    /\ UNCHANGED rest

\* CommitTransaction up to the first await of send_transaction_prepare:
\* remove_coordinated, remove, and TransactionPrepare sent to the first of the
\* other threads.  The handler keeps the manager lock while it waits
CommitStart(c, tid) ==
    /\ Serving(c)
    /\ ~remove_coordinated_fails(manager[c], tid)
    /\ manager' = [manager EXCEPT ![c] =
                        manager_remove(remove_coordinated(@, tid), tid)]
    /\ LET first == Head(Others(c))
       IN IF Gone(first)
          THEN /\ Panic(c)
               /\ tx_log' = [tx_log EXCEPT ![tid].outcome = "lost"]
          ELSE /\ queue' = Enqueue(queue, {first},
                                   ThreadMessage("TransactionPrepare", tid, c))
               /\ handler' = [handler EXCEPT ![c] =
                    Some([kind |-> "Commit", pc |-> "prepare", tid |-> tid,
                          transaction |-> TransactionOf(c, tid),
                          peer |-> first, rest |-> Tail(Others(c)),
                          vote |-> None])]
               /\ tx_log' = [tx_log EXCEPT ![tid].outcome = "committing"]
               /\ UNCHANGED <<status, tasks>>
    /\ UNCHANGED <<now, memtable, commit_log, handles, commit_logs, sstables,
                   next_ino, next_tid, used, acked, last_get, last_flush>>
    /\ UNCHANGED rest

\* CommitTransaction from the vote it waited for: the next TransactionPrepare
\* after a yes with threads left to ask; otherwise the coordinator's own
\* can_commit unless a vote was no, the fan-out of the decision and the
\* response.  The coordinator's buffer, removed from the manager, is dropped
CommitContinue(c) ==
    /\ status[c] = "running"
    /\ handler[c] # None
    /\ handler[c][1].kind = "Commit" /\ handler[c][1].vote # None
    /\ LET h == handler[c][1]
           vote == h.vote[1]
           decided == vote /\ can_commit(h.transaction, memtable[c])
           message == DecisionMessage(decided, h.tid, c)
       IN IF vote /\ h.rest # <<>>
          THEN IF Gone(Head(h.rest))
               THEN /\ Panic(c)
                    /\ tx_log' = [tx_log EXCEPT ![h.tid].outcome = "lost"]
               ELSE /\ queue' = Enqueue(queue, {Head(h.rest)},
                                    ThreadMessage("TransactionPrepare", h.tid, c))
                    /\ handler' = [handler EXCEPT ![c] =
                            Some([h EXCEPT !.peer = Head(h.rest),
                                           !.rest = Tail(h.rest),
                                           !.vote = None])]
                    /\ UNCHANGED <<status, tasks, tx_log>>
          ELSE IF SendFails(c)
               THEN /\ PanicWith(c, Enqueue(queue, Reached(c), message))
                    /\ tx_log' = [tx_log EXCEPT
                            ![h.tid].outcome = "lost",
                            ![h.tid].no_vote = @ \/ ~decided,
                            ![h.tid].aborted_to = IF decided THEN @ ELSE Reached(c)]
               ELSE /\ queue' = Enqueue(queue, Threads \ {c}, message)
                    /\ handler' = [handler EXCEPT ![c] = None]
                    /\ tx_log' = [tx_log EXCEPT
                            ![h.tid].outcome = IF decided THEN "committed" ELSE "aborted",
                            ![h.tid].no_vote = @ \/ ~decided,
                            ![h.tid].aborted_to = IF decided THEN @ ELSE Threads \ {c}]
                    /\ UNCHANGED <<status, tasks>>
    /\ UNCHANGED <<now, memtable, commit_log, handles, commit_logs, sstables,
                   next_ino, manager, next_tid, used, acked, last_get, last_flush>>
    /\ UNCHANGED rest

\* CommitTransaction when the thread it waits for is gone: the reply sender
\* is dropped and receiver.await.unwrap() panics
CommitPeerLost(c) ==
    /\ status[c] = "running"
    /\ handler[c] # None
    /\ handler[c][1].kind = "Commit" /\ handler[c][1].vote = None
    /\ Gone(handler[c][1].peer)
    /\ Panic(c)
    /\ tx_log' = [tx_log EXCEPT ![handler[c][1].tid].outcome = "lost"]
    /\ UNCHANGED <<now, memtable, commit_log, handles, commit_logs, sstables,
                   next_ino, manager, next_tid, used, acked, last_get, last_flush>>
    /\ UNCHANGED rest

\* AbortTransaction
AbortTransaction(c, tid) ==
    /\ Serving(c)
    /\ tid \in manager[c].coordinated_transactions
    /\ manager' = [manager EXCEPT ![c] =
                        manager_remove(remove_coordinated(@, tid), tid)]
    /\ LET message == ThreadMessage("TransactionAborted", tid, c)
       IN IF SendFails(c)
          THEN /\ PanicWith(c, Enqueue(queue, Reached(c), message))
               /\ tx_log' = [tx_log EXCEPT ![tid].outcome = "lost",
                                           ![tid].aborted_to = Reached(c)]
          ELSE /\ queue' = Enqueue(queue, Threads \ {c}, message)
               /\ tx_log' = [tx_log EXCEPT ![tid].outcome = "client_abort",
                                           ![tid].aborted_to = Threads \ {c}]
               /\ UNCHANGED <<status, handler, tasks>>
    /\ UNCHANGED <<now, memtable, commit_log, handles, commit_logs, sstables,
                   next_ino, next_tid, used, acked, last_get, last_flush>>
    /\ UNCHANGED rest

(* ------------------------------------------------------------------ *)
(* The store without transactions: requests, flushes, crashes          *)
(* ------------------------------------------------------------------ *)

NextStore ==
    \/ Tick
    \/ \E t \in Threads, key \in Keys, values \in ClientValues : InsertStart(t, key, values)
    \/ \E t \in Threads : InsertApply(t)
    \/ \E t \in Threads, key \in Keys : DeleteApply(t, key)
    \/ \E t \in Threads : Respond(t)
    \/ \E t \in Threads, key \in Keys : Get(t, key)
    \/ \E i \in 1 .. Len(tasks) : FlushStart(i)
    \/ \E i \in 1 .. Len(tasks) : FlushOpen(i)
    \/ \E i \in 1 .. Len(tasks) : FlushWriteIndex(i)
    \/ \E i \in 1 .. Len(tasks) : FlushWriteRows(i)
    \/ \E i \in 1 .. Len(tasks) : FlushFail(i)
    \/ \E i \in 1 .. Len(tasks) : FlushDeleteLog(i)

SpecStore == Init /\ [][NextStore]_vars

(* ------------------------------------------------------------------ *)
(* The store across a crash: the process is killed, the clock may move *)
(* on while it is down, the threads start again and replay their logs  *)
(* ------------------------------------------------------------------ *)

Down == \A t \in Threads : status[t] = "starting"

NextRecovery ==
    \/ Crash
    \/ Down /\ Tick
    \/ \E t \in Threads : ThreadStart(t)
    \/ \E t \in Threads, key \in Keys, values \in ClientValues : InsertStart(t, key, values)
    \/ \E t \in Threads : InsertApply(t)
    \/ \E t \in Threads, key \in Keys : DeleteApply(t, key)
    \/ \E t \in Threads : Respond(t)
    \/ \E t \in Threads, key \in Keys : Get(t, key)
    \/ \E i \in 1 .. Len(tasks) : FlushStart(i)
    \/ \E i \in 1 .. Len(tasks) : FlushOpen(i)
    \/ \E i \in 1 .. Len(tasks) : FlushWriteIndex(i)
    \/ \E i \in 1 .. Len(tasks) : FlushWriteRows(i)
    \/ \E i \in 1 .. Len(tasks) : FlushDeleteLog(i)

SpecRecovery == Init /\ [][NextRecovery]_vars

(* ------------------------------------------------------------------ *)
(* The loop of thread_main: one message of the channel at a time, each *)
(* under the manager lock                                              *)
(* ------------------------------------------------------------------ *)

\* The message the loop of thread t takes next, if the lock is free
Receives(t, kind) ==
    /\ status[t] = "running"
    /\ handler[t] = None
    /\ queue[t] # <<>>
    /\ Head(queue[t]).kind = kind

\* ThreadMessage::TransactionBegun
ThreadTransactionBegun(t) ==
    /\ Receives(t, "TransactionBegun")
    /\ manager' = [manager EXCEPT ![t] = manager_add(@, Head(queue[t]).tid)]
    /\ queue' = [queue EXCEPT ![t] = Tail(@)]
    /\ UNCHANGED <<now, status, memtable, commit_log, handles, commit_logs,
                   sstables, next_ino, tasks, handler, next_tid, used, acked,
                   last_get, last_flush, tx_log>>
    /\ UNCHANGED rest

\* ThreadMessage::TransactionPrepare: can_commit, sent back to the coordinator.
\* get(..).unwrap() panics without the transaction, send(..).unwrap() when the
\* coordinator is gone
ThreadTransactionPrepare(t) ==
    /\ Receives(t, "TransactionPrepare")
    /\ LET tid == Head(queue[t]).tid
           c == Head(queue[t]).from
           vote == can_commit(TransactionOf(t, tid), memtable[t])
       IN IF ~HasTransaction(t, tid) \/ Gone(c)
          THEN Panic(t) /\ UNCHANGED tx_log
          ELSE /\ queue' = [queue EXCEPT ![t] = Tail(@)]
               /\ handler' = [handler EXCEPT ![c] =
                                Some([@[1] EXCEPT !.vote = Some(vote)])]
               /\ tx_log' = [tx_log EXCEPT ![tid].no_vote = @ \/ ~vote]
               /\ UNCHANGED <<status, tasks>>
    /\ UNCHANGED <<now, memtable, commit_log, handles, commit_logs, sstables,
                   next_ino, manager, next_tid, used, acked, last_get, last_flush>>
    /\ UNCHANGED rest

\* The history of transaction tid after thread t applied operations over
\* the rows the others recorded
RECURSIVE NoteWrites(_, _, _)
NoteWrites(log, operations, tid) ==
    IF operations = <<>> THEN log
    ELSE NoteWrites(NoteForeign(log, Head(operations).key, tid),
                    Tail(operations), tid)

\* ThreadMessage::TransactionCommit: the buffer is removed and committed;
\* remove(..).unwrap() panics without the transaction.  A memtable that fills
\* up is swapped out and flushed with the commit log the table goes on using
ThreadTransactionCommit(t) ==
    /\ Receives(t, "TransactionCommit")
    /\ LET tid == Head(queue[t]).tid
           transaction == TransactionOf(t, tid)
           committed == transaction_commit(transaction, memtable[t], now)
           operations == transaction.operations
           keys == {operations[i].key : i \in 1 .. Len(operations)}
       IN IF ~HasTransaction(t, tid)
          THEN Panic(t) /\ UNCHANGED <<manager, memtable, tx_log>>
          ELSE /\ queue' = [queue EXCEPT ![t] = Tail(@)]
               /\ manager' = [manager EXCEPT ![t] = manager_remove(@, tid)]
               /\ memtable' = [memtable EXCEPT ![t] = committed.memtable]
               /\ tasks' = tasks \o [i \in 1 .. Len(committed.full_memtables) |->
                            FlushTask(t, committed.full_memtables[i], commit_log[t])]
               /\ tx_log' = NoteWrites(
                    [tx_log EXCEPT
                        ![tid].applied = @ \cup
                            {<<t, operations[i].kind, operations[i].key>> :
                                i \in 1 .. Len(operations)},
                        ![tid].lost_update = @ \/ (keys \cap tx_log[tid].overwritten # {})],
                    operations, tid)
               /\ UNCHANGED <<status, handler>>
    /\ UNCHANGED <<now, commit_log, handles, commit_logs, sstables, next_ino,
                   next_tid, used, acked, last_get, last_flush>>
    /\ UNCHANGED rest

\* ThreadMessage::TransactionAborted
ThreadTransactionAborted(t) ==
    /\ Receives(t, "TransactionAborted")
    /\ manager' = [manager EXCEPT ![t] = manager_remove(@, Head(queue[t]).tid)]
    /\ queue' = [queue EXCEPT ![t] = Tail(@)]
    /\ UNCHANGED <<now, status, memtable, commit_log, handles, commit_logs,
                   sstables, next_ino, tasks, handler, next_tid, used, acked,
                   last_get, last_flush, tx_log>>
    /\ UNCHANGED rest

(* ------------------------------------------------------------------ *)
(* The server with transactions                                        *)
(* ------------------------------------------------------------------ *)

Transactions == 1 .. MaxTransactions

Next ==
    \/ \E t \in Threads, values \in ClientValues : InsertStart(t, KeyB, values)
    \/ \E t \in Threads : InsertApply(t)
    \/ \E t \in Threads : Respond(t)
    \/ \E i \in 1 .. Len(tasks) : FlushStart(i)
    \/ \E i \in 1 .. Len(tasks) : FlushOpen(i)
    \/ \E i \in 1 .. Len(tasks) : FlushWriteIndex(i)
    \/ \E i \in 1 .. Len(tasks) : FlushWriteRows(i)
    \/ \E i \in 1 .. Len(tasks) : FlushDeleteLog(i)
    \/ \E c \in Threads : BeginTransaction(c)
    \/ \E t \in Threads, tid \in Transactions, key \in Keys : TxGet(t, tid, key)
    \/ \E t \in Threads, tid \in Transactions, key \in Keys,
            values \in TransactionValues : TxInsert(t, tid, key, values)
    \/ \E t \in Threads, tid \in Transactions, key \in Keys : TxDelete(t, tid, key)
    \/ \E c \in Threads, tid \in Transactions : CommitStart(c, tid)
    \/ \E c \in Threads : CommitContinue(c)
    \/ \E c \in Threads : CommitPeerLost(c)
    \/ \E c \in Threads, tid \in Transactions : AbortTransaction(c, tid)
    \/ \E t \in Threads : ThreadTransactionBegun(t)
    \/ \E t \in Threads : ThreadTransactionPrepare(t)
    \/ \E t \in Threads : ThreadTransactionCommit(t)
    \/ \E t \in Threads : ThreadTransactionAborted(t)

Spec == Init /\ [][Next]_vars

(* ------------------------------------------------------------------ *)
(* Compaction: compaction_main on its own thread, compact_sstables and  *)
(* compact_bucket, one action for each stretch between two awaits       *)
(* ------------------------------------------------------------------ *)

\* conditionally_compact_table_sstables compacts a table with more segments
\* than this (4 in the program)
COMPACTION_MIN_SSTABLES == 1

\* compact_sstables: bucket_size_range (4 ..= 32 in the program)
BUCKET_SIZE_MIN == 2
BUCKET_SIZE_MAX == 3

\* compact_bucket: the loop that decodes one content buffer into the
\* memtable.  The buffer holds the file from the end of the partition index
\* on, and offset starts at the length of the partition index all the same.
\* None when a slice past the end of the buffer, or decode_row, panics
RECURSIVE LoadRows(_, _, _)
LoadRows(content_buffer, offset, loaded) ==
    IF offset = Len(content_buffer) THEN Some(loaded)
    ELSE IF offset + row_byte_size > Len(content_buffer) THEN None
    ELSE LET row == decode_row(SubSeq(content_buffer, offset + 1,
                                      offset + row_byte_size))
         IN IF row = None THEN None
            ELSE LoadRows(content_buffer, offset + row_byte_size,
                          memtable_insert(loaded, row[1], TRUE, 0))

\* compaction_main wakes up: get_sstables_metadata, the segments sorted by
\* size, largest first, and put into buckets.  Segments below 50 megabytes
\* all fall into one bucket, which is compacted if its size is in range
CompactStart ==
    /\ compaction.pc = "sleeping"
    /\ Cardinality(sstables) > COMPACTION_MIN_SSTABLES
    /\ Cardinality(sstables) \in BUCKET_SIZE_MIN .. BUCKET_SIZE_MAX
    /\ \E order \in [1 .. Cardinality(sstables) -> sstables] :
        /\ \A i, j \in DOMAIN order :
                i < j => /\ order[i] # order[j]
                         /\ Len(order[i].bytes) >= Len(order[j].bytes)
        /\ compaction' = [compaction EXCEPT
                !.pc = "loading",
                !.bucket = [i \in DOMAIN order |->
                                [name |-> order[i].name,
                                 file_size |-> Len(order[i].bytes)]],
                !.at = 1,
                !.memtable = MemtableDefault,
                !.inputs = sstables]
    /\ UNCHANGED <<now, status, memtable, commit_log, handles, commit_logs,
                   sstables, next_ino, tasks, manager, queue, handler, next_tid,
                   used, acked, last_get, last_flush, tx_log, tables, catalog,
                   shutdown, last_reply>>

\* compact_bucket: one input file is opened, read from the end of its
\* partition index into a buffer of file_size minus that length, and decoded
\* into the memtable.  After the last file: to_sstable_rows and write_to_disk
\* up to the open of the output file
CompactLoad ==
    /\ compaction.pc = "loading"
    /\ LET meta == compaction.bucket[compaction.at]
           size == meta.name[1]
           file == CHOOSE f \in sstables : f.name = meta.name
           end == IF Len(file.bytes) < meta.file_size THEN Len(file.bytes)
                  ELSE meta.file_size
           loaded == IF ~HasFile(sstables, meta.name) \/ meta.file_size < size
                     THEN None
                     ELSE LoadRows(SubSeq(file.bytes, size + 1, end), size,
                                   compaction.memtable)
           segment == to_sstable_rows(loaded[1], NUM_OF_PARTITIONS)
       IN compaction' =
            IF loaded = None THEN [compaction EXCEPT !.pc = "panicked"]
            ELSE IF compaction.at < Len(compaction.bucket)
            THEN [compaction EXCEPT !.at = @ + 1, !.memtable = loaded[1]]
            ELSE IF loaded[1].rows = <<>>
            THEN [compaction EXCEPT !.pc = "panicked", !.memtable = loaded[1]]
            ELSE [compaction EXCEPT
                    !.pc = "opening",
                    !.memtable = loaded[1],
                    !.name = SSTableFileName(segment.partition_index,
                                             segment.rows, now)]
    /\ UNCHANGED <<now, status, memtable, commit_log, handles, commit_logs,
                   sstables, next_ino, tasks, manager, queue, handler, next_tid,
                   used, acked, last_get, last_flush, tx_log, tables, catalog,
                   shutdown, last_reply>>

\* write_to_disk of the output segment: the open, the write of the partition
\* index, the write of the rows
CompactWrite ==
    /\ compaction.pc \in {"opening", "index", "rows"}
    /\ LET segment == to_sstable_rows(compaction.memtable, NUM_OF_PARTITIONS)
           header == partition_index_bytes(segment.partition_index)
       IN CASE compaction.pc = "opening" ->
                /\ sstables' = OpenCreate(sstables, compaction.name)
                /\ next_ino' = IF HasFile(sstables, compaction.name)
                               THEN next_ino ELSE next_ino + 1
                /\ compaction' = [compaction EXCEPT
                        !.pc = "index",
                        !.ino = OpenedIno(sstables, compaction.name)]
            [] compaction.pc = "index" ->
                /\ sstables' = WriteThrough(sstables, compaction.ino, header, 0)
                /\ compaction' = [compaction EXCEPT !.pc = "rows"]
                /\ UNCHANGED next_ino
            [] compaction.pc = "rows" ->
                /\ sstables' = WriteThrough(sstables, compaction.ino,
                                            encoded_rows(segment.rows), Len(header))
                /\ compaction' = [compaction EXCEPT !.pc = "unlinking", !.at = 1]
                /\ UNCHANGED next_ino
    /\ UNCHANGED <<now, status, memtable, commit_log, handles, commit_logs,
                   tasks, manager, queue, handler, next_tid, used, acked,
                   last_get, last_flush, tx_log, tables, catalog, shutdown,
                   last_reply>>

\* write_to_disk of the output segment returns Err: the open fails and no
\* file is made, or one of the two writes fails and the file keeps what it
\* had.  compact_bucket logs the error and goes on to the loop that removes
\* the input files
CompactWriteFail ==
    /\ compaction.pc \in {"opening", "index", "rows"}
    /\ used.failures < MaxFailures
    /\ used' = [used EXCEPT !.failures = @ + 1]
    /\ compaction' = [compaction EXCEPT
            !.pc = "unlinking", !.at = 1, !.failed = TRUE]
    /\ UNCHANGED <<now, status, memtable, commit_log, handles, commit_logs,
                   sstables, next_ino, tasks, manager, queue, handler, next_tid,
                   acked, last_get, last_flush, tx_log, tables, catalog,
                   shutdown, last_reply>>

\* compact_bucket: std::fs::remove_file(..).unwrap() of one input file
CompactUnlink ==
    /\ compaction.pc = "unlinking"
    /\ LET meta == compaction.bucket[compaction.at]
       IN IF ~HasFile(sstables, meta.name)
          THEN /\ compaction' = [compaction EXCEPT !.pc = "panicked"]
               /\ UNCHANGED sstables
          ELSE /\ sstables' = {f \in sstables : f.name # meta.name}
               /\ compaction' =
                    IF compaction.at < Len(compaction.bucket)
                    THEN [compaction EXCEPT !.at = @ + 1]
                    ELSE [compaction EXCEPT !.pc = "sleeping"]
    /\ UNCHANGED <<now, status, memtable, commit_log, handles, commit_logs,
                   next_ino, tasks, manager, queue, handler, next_tid, used,
                   acked, last_get, last_flush, tx_log, tables, catalog,
                   shutdown, last_reply>>

\* The server started again after two runs that each ended with SIGINT and
\* wrote the memtable of thread 1 to a segment: two segments, no commit log
\* to replay, empty memtables.  The first memtable had six rows with a NULL
\* sort key, which encode_row writes one byte short of row_byte_size, so
\* that the content of the segment ends where the loop of compact_bucket
\* stops; the second had the same six rows, or two rows, one of them with a
\* sort key of full width.  The row of HashW varies in timestamp and
\* tombstone flag
InitCompaction ==
    /\ now = MaxTime + 1
    /\ status = [t \in Threads |-> "running"]
    /\ memtable = [t \in Threads |-> MemtableDefault]
    /\ commit_log = [t \in Threads |-> t + 1]
    /\ handles = [i \in 1 .. NumThreads |->
                    [file_path |-> i, file |-> Some(i), file_offset |-> 0,
                     closed |-> FALSE]]
    /\ commit_logs = {[serial |-> i, owner |-> Unobserved, millis |-> MaxTime + 1,
                       bytes |-> <<>>] : i \in 1 .. NumThreads}
    /\ \E t1, t2 \in 0 .. MaxTime, d1, d2 \in BOOLEAN, six \in BOOLEAN :
        LET fill(h) == RowNewWithTimestamp(h, KeyW.sort_key, ValueX, 0)
            w(timestamp, deleted) ==
                [RowNewWithTimestamp(HashW, KeyW.sort_key, ValueX, timestamp)
                    EXCEPT !.marked_for_deletion = deleted]
            ins(m, r) == memtable_insert(m, r, TRUE, 0)
            SixRows(timestamp, deleted) ==
                ins(ins(ins(ins(ins(ins(MemtableDefault, fill(<<48>>)),
                                    w(timestamp, deleted)), fill(<<51>>)),
                            fill(HashB)), fill(<<99>>)), fill(<<112>>))
            TwoRows(timestamp, deleted) ==
                ins(ins(MemtableDefault,
                        RowNewWithTimestamp(HashB, KeyB.sort_key, ValueX, 0)),
                    w(timestamp, deleted))
            \* write_to_disk of flush_memtable_to_sstable, completed
            SegmentFile(full_memtable, millis, ino) ==
                LET segment == to_sstable_rows(full_memtable, NumThreads)
                IN [name |-> SSTableFileName(segment.partition_index,
                                             segment.rows, millis),
                    ino |-> ino,
                    bytes |-> partition_index_bytes(segment.partition_index)
                                \o encoded_rows(segment.rows)]
            first == SixRows(t1, d1)
            second == IF six THEN SixRows(t2, d2) ELSE TwoRows(t2, d2)
        IN /\ sstables = {SegmentFile(first, 0, NumThreads + 1),
                          SegmentFile(second, 1, NumThreads + 2)}
           /\ compaction = [CompactionSleeping EXCEPT
                !.source = {first.rows[i] : i \in DOMAIN first.rows}
                            \cup {second.rows[i] : i \in DOMAIN second.rows}]
    /\ next_ino = NumThreads + 3
    /\ tasks = <<>>
    /\ manager = [t \in Threads |-> TransactionManagerNew]
    /\ queue = [t \in Threads |-> <<>>]
    /\ handler = [t \in Threads |-> None]
    /\ next_tid = 1
    /\ used = [inserts |-> 0, deletes |-> 0, gets |-> 0, crashes |-> 0,
               failures |-> 0, transactions |-> 0, tx_operations |-> 0,
               schema_changes |-> 0]
    /\ acked = [k \in Keys \cup {KeyA} |-> None]
    /\ last_get = None
    /\ last_flush = None
    /\ tx_log = <<>>
    /\ tables = [t \in Threads |-> {TableName}]
    /\ catalog = <<TableName>>
    /\ shutdown = [main |-> "running", sent |-> {}, at |-> 0, acknowledged |-> {}]
    /\ last_reply = None

\* Get outside a transaction, up to the first await of read_row_from_sstable:
\* the memtable has no row for the key, get_sstables_metadata lists the
\* segments and they are sorted by timestamp, newest first
GetList(t, key) ==
    /\ Serving(t)
    /\ validate_hash_key_partition(key.hash_key, t)
    /\ used.gets < MaxGets
    /\ used' = [used EXCEPT !.gets = @ + 1]
    /\ memtable_get(memtable[t], PrimaryKey(key.hash_key, key.sort_key)) = None
    /\ \E order \in [1 .. Cardinality(sstables) -> sstables] :
        /\ \A i, j \in DOMAIN order :
                i < j => /\ order[i] # order[j]
                         /\ order[i].name[3] >= order[j].name[3]
        /\ handler' = [handler EXCEPT ![t] =
                Some([kind |-> "Get", pc |-> "listed", key |-> key,
                      files |-> [i \in DOMAIN order |-> order[i].name],
                      \* history: what the lookup comes to when no compaction
                      \* runs, on the segments as they were before the round
                      alone |-> read_row_from_sstable(
                            PrimaryKey(key.hash_key, key.sort_key),
                            get_hash_key_target_partition(key.hash_key, NumThreads),
                            IF compaction.pc \in {"sleeping", "panicked"}
                            THEN sstables ELSE compaction.inputs)])]
    /\ UNCHANGED <<now, status, memtable, commit_log, handles, commit_logs,
                   sstables, next_ino, tasks, manager, queue, next_tid, acked,
                   last_get, last_flush, tx_log>>
    /\ UNCHANGED rest

\* read_row_from_sstable: one round of its loop.  The next file of the list
\* is opened, its partition index is read and parsed, and the rows are
\* searched; the lookup ends with the first row found or after the last file
GetSegment(t) ==
    /\ status[t] = "running"
    /\ handler[t] # None
    /\ handler[t][1].kind = "Get"
    /\ LET h == handler[t][1]
           name == Head(h.files)
           primary_key == PrimaryKey(h.key.hash_key, h.key.sort_key)
           partition == get_hash_key_target_partition(h.key.hash_key, NumThreads)
           outcome == IF h.files = <<>> THEN NotFound
                      ELSE IF ~HasFile(sstables, name) THEN Panics
                      ELSE SearchSegment(primary_key, partition,
                                CHOOSE f \in sstables : f.name = name)
       IN /\ last_reply' =
                IF outcome = NotFound /\ Len(h.files) > 1 THEN last_reply
                ELSE Some([kind |-> "Get", key |-> h.key, outcome |-> outcome,
                           alone |-> h.alone])
          /\ IF outcome.kind \in {"panic", "underflow"}
             THEN LookupFails(t, outcome)
             ELSE /\ handler' = [handler EXCEPT ![t] =
                        IF outcome = NotFound /\ Len(h.files) > 1
                        THEN Some([h EXCEPT !.files = Tail(@)])
                        ELSE None]
                  /\ UNCHANGED <<status, tasks, queue>>
    /\ UNCHANGED <<now, memtable, commit_log, handles, commit_logs, sstables,
                   next_ino, manager, next_tid, used, acked, last_get,
                   last_flush, tx_log, tables, catalog, compaction, shutdown>>

\* The server with two segments, the compaction thread and lookups
NextCompaction ==
    \/ CompactStart
    \/ CompactLoad
    \/ CompactWrite
    \/ CompactWriteFail
    \/ CompactUnlink
    \/ \E t \in Threads, key \in Keys : GetList(t, key)
    \/ \E t \in Threads : GetSegment(t)

SpecCompaction == InitCompaction /\ [][NextCompaction]_vars

(* ------------------------------------------------------------------ *)
(* Requests that fail validate_hash_key_partition, and batches          *)
(* ------------------------------------------------------------------ *)

\* Command::Single with a hash key of a partition that thread t does not
\* own: validate_hash_key_partition returns the client error before
\* handle_operation is called
InvalidPartition(t, key) ==
    /\ Serving(t)
    /\ ~validate_hash_key_partition(key.hash_key, t)
    /\ last_reply' = Some([kind |-> "Single", thread |-> t, keys |-> <<key>>,
                           executed |-> 0, error |-> "Invalid partition"])
    /\ UNCHANGED <<now, status, memtable, commit_log, handles, commit_logs,
                   sstables, next_ino, tasks, manager, queue, handler, next_tid,
                   used, acked, last_get, last_flush, tx_log, tables, catalog,
                   compaction, shutdown>>

\* handle_operations on thread t for a batch of Deletes: each element is
\* validated and then executed, and the first element that fails the
\* validation ends the loop with its error.  The memtable after the loop and
\* the number of elements executed
RECURSIVE handle_operations(_, _, _, _)
handle_operations(operations, t, table_memtable, executed) ==
    IF operations = <<>>
    THEN [memtable |-> table_memtable, executed |-> executed, error |-> ""]
    ELSE IF ~validate_hash_key_partition(Head(operations).hash_key, t)
    THEN [memtable |-> table_memtable, executed |-> executed,
          error |-> "Invalid partition"]
    ELSE handle_operations(Tail(operations), t,
            memtable_delete(table_memtable,
                            PrimaryKey(Head(operations).hash_key,
                                       Head(operations).sort_key), None, now),
            executed + 1)

\* Command::Batch of Deletes outside a transaction.  No element awaits, so
\* the loop runs in one step; what the elements before a rejected one did
\* stays done
Batch(t, operations) ==
    /\ Serving(t)
    /\ used.deletes < MaxDeletes
    /\ used' = [used EXCEPT !.deletes = @ + 1]
    /\ LET done == handle_operations(operations, t, memtable[t], 0)
       IN /\ memtable' = [memtable EXCEPT ![t] = done.memtable]
          /\ acked' = [k \in DOMAIN acked |->
                        IF \E i \in 1 .. done.executed : operations[i] = k
                        THEN None ELSE acked[k]]
          /\ last_reply' = Some([kind |-> "Batch", thread |-> t,
                                 keys |-> operations,
                                 executed |-> done.executed,
                                 error |-> done.error])
    /\ UNCHANGED <<now, status, commit_log, handles, commit_logs, sstables,
                   next_ino, tasks, manager, queue, handler, next_tid, last_get,
                   last_flush, tx_log, tables, catalog, compaction, shutdown>>

\* The store with requests for keys of either thread sent to either thread
NextPartition ==
    \/ \E t \in Threads, key \in Keys, values \in ClientValues :
            InsertStart(t, key, values)
    \/ \E t \in Threads : InsertApply(t)
    \/ \E t \in Threads, key \in Keys : DeleteApply(t, key)
    \/ \E t \in Threads : Respond(t)
    \/ \E t \in Threads, key \in Keys : Get(t, key)
    \/ \E t \in Threads, key \in Keys \cup {KeyA} : InvalidPartition(t, key)
    \/ \E t \in Threads, n \in 1 .. MaxBatch :
        \E operations \in [1 .. n -> Keys \cup {KeyA}] : Batch(t, operations)
    \/ \E i \in 1 .. Len(tasks) : FlushStart(i)
    \/ \E i \in 1 .. Len(tasks) : FlushOpen(i)
    \/ \E i \in 1 .. Len(tasks) : FlushWriteIndex(i)
    \/ \E i \in 1 .. Len(tasks) : FlushWriteRows(i)
    \/ \E i \in 1 .. Len(tasks) : FlushDeleteLog(i)

SpecPartition == Init /\ [][NextPartition]_vars

(* ------------------------------------------------------------------ *)
(* Shutdown: run_listener_threads after ctrl_c.await.  Among the        *)
(* receivers the main task waits for, the compaction thread comes after *)
(* the partition threads, as number NumThreads                          *)
(* ------------------------------------------------------------------ *)

\* SIGINT arrives
Sigint ==
    /\ shutdown.main = "running"
    /\ shutdown' = [shutdown EXCEPT !.main = "sending"]
    /\ UNCHANGED <<now, status, memtable, commit_log, handles, commit_logs,
                   sstables, next_ino, tasks, manager, queue, handler, next_tid,
                   used, acked, last_get, last_flush, tx_log, tables, catalog,
                   compaction, last_reply>>

\* One send of the main task: ThreadMessage::CtrlC to the next thread, and
\* after the last thread the oneshot sender to the compaction thread.
\* send(..).await.unwrap() panics when the receiver is gone
MainSend ==
    /\ shutdown.main = "sending"
    /\ LET to == shutdown.at
           gone == IF to = NumThreads THEN compaction.pc = "panicked" ELSE Gone(to)
       IN /\ shutdown' =
                IF gone THEN [shutdown EXCEPT !.main = "panicked"]
                ELSE [shutdown EXCEPT
                        !.sent = @ \cup {to},
                        !.at = IF to = NumThreads THEN 0 ELSE to + 1,
                        !.main = IF to = NumThreads THEN "waiting" ELSE @]
          /\ queue' = IF gone \/ to = NumThreads THEN queue
                      ELSE Enqueue(queue, {to}, ThreadMessage("CtrlC", 0, NumThreads))
    /\ UNCHANGED <<now, status, memtable, commit_log, handles, commit_logs,
                   sstables, next_ino, tasks, manager, handler, next_tid, used,
                   acked, last_get, last_flush, tx_log, tables, catalog,
                   compaction, last_reply>>

\* ThreadMessage::CtrlC on thread t: the memtable of the table is swapped for
\* Memtable::default() and flush_memtable_to_sstable is awaited on what it
\* held; the acknowledgement follows the flush
ThreadCtrlC(t) ==
    /\ Receives(t, "CtrlC")
    /\ queue' = [queue EXCEPT ![t] = Tail(@)]
    /\ memtable' = [memtable EXCEPT ![t] = MemtableDefault]
    /\ tasks' = Append(tasks, [FlushTask(t, memtable[t], commit_log[t])
                                    EXCEPT !.ctrl_c = TRUE])
    /\ UNCHANGED <<now, status, commit_log, handles, commit_logs, sstables,
                   next_ino, manager, handler, next_tid, used, acked, last_get,
                   last_flush, tx_log>>
    /\ UNCHANGED rest

\* compaction_main takes the oneshot sender between two rounds, acknowledges
\* and leaves its loop
CompactionCtrlC ==
    /\ compaction.pc = "sleeping"
    /\ NumThreads \in shutdown.sent \ shutdown.acknowledged
    /\ shutdown' = [shutdown EXCEPT !.acknowledged = @ \cup {NumThreads}]
    /\ compaction' = [compaction EXCEPT !.pc = "stopped"]
    /\ UNCHANGED <<now, status, memtable, commit_log, handles, commit_logs,
                   sstables, next_ino, tasks, manager, queue, handler, next_tid,
                   used, acked, last_get, last_flush, tx_log, tables, catalog,
                   last_reply>>

\* One ctrl_c_receiver.await.unwrap() of the main task, in the order of the
\* sends: it returns when the acknowledgement was sent and panics when the
\* sender was dropped, which is when its thread panicked
MainAwait ==
    /\ shutdown.main = "waiting"
    /\ LET from == shutdown.at
           dropped == IF from = NumThreads THEN compaction.pc = "panicked"
                      ELSE Gone(from)
       IN /\ from \in shutdown.acknowledged \/ dropped
          /\ shutdown' =
                IF from \notin shutdown.acknowledged
                THEN [shutdown EXCEPT !.main = "panicked"]
                ELSE IF from = NumThreads
                THEN [shutdown EXCEPT !.main = "finished"]
                ELSE [shutdown EXCEPT !.at = from + 1]
    /\ UNCHANGED <<now, status, memtable, commit_log, handles, commit_logs,
                   sstables, next_ino, tasks, manager, queue, handler, next_tid,
                   used, acked, last_get, last_flush, tx_log, tables, catalog,
                   compaction, last_reply>>

\* The server with Inserts for either thread, up to and through a shutdown
NextShutdown ==
    \/ \E t \in Threads, key \in {KeyA, KeyB}, values \in ClientValues :
            InsertStart(t, key, values)
    \/ \E t \in Threads : InsertApply(t)
    \/ \E t \in Threads : Respond(t)
    \/ Tick
    \/ Sigint
    \/ MainSend
    \/ \E t \in Threads : ThreadCtrlC(t)
    \/ CompactionCtrlC
    \/ MainAwait
    \/ \E i \in 1 .. Len(tasks) : FlushStart(i)
    \/ \E i \in 1 .. Len(tasks) : FlushOpen(i)
    \/ \E i \in 1 .. Len(tasks) : FlushWriteIndex(i)
    \/ \E i \in 1 .. Len(tasks) : FlushWriteRows(i)
    \/ \E i \in 1 .. Len(tasks) : FlushDeleteLog(i)

SpecShutdown == Init /\ [][NextShutdown]_vars

(* ------------------------------------------------------------------ *)
(* DropTable and SyncModel: the request of a client on thread t, and    *)
(* the message that the thread of the request sends to the other        *)
(* threads.  A line of the catalog file is the name of its schema       *)
(* ------------------------------------------------------------------ *)

\* drop_table on thread t, called for Command::DropTable (from_message is
\* FALSE: an error is mapped to a client error, a success is followed by
\* send_drop_table) or for ThreadMessage::DropTable (from_message is TRUE:
\* drop_table(..).await.unwrap()).  The table leaves the registry of the
\* thread, the catalog is rewritten from the tables that remain, and every
\* segment file of the table is removed
DropTable(t, from_message) ==
    /\ IF from_message THEN Receives(t, "DropTable")
       ELSE /\ Serving(t)
            /\ used.schema_changes < MaxSchemaChanges
    /\ used' = IF from_message THEN used
               ELSE [used EXCEPT !.schema_changes = @ + 1]
    /\ LET received == IF from_message THEN [queue EXCEPT ![t] = Tail(@)] ELSE queue
           message == ThreadMessage("DropTable", 0, t)
       IN IF TableName \notin tables[t]
          THEN /\ IF from_message
                  THEN Panic(t) /\ UNCHANGED last_reply
                  ELSE /\ last_reply' = Some([kind |-> "DropTable", thread |-> t,
                                 error |-> "Table 't' does not exist"])
                       /\ UNCHANGED <<status, handler, tasks, queue>>
               /\ UNCHANGED <<memtable, sstables, tables, catalog>>
          ELSE /\ tables' = [tables EXCEPT ![t] = @ \ {TableName}]
               /\ memtable' = [memtable EXCEPT ![t] = MemtableDefault]
               /\ catalog' = <<>>
               /\ sstables' = {}
               /\ IF from_message
                  THEN /\ queue' = received
                       /\ UNCHANGED <<status, handler, tasks, last_reply>>
                  ELSE IF SendFails(t)
                  THEN /\ PanicWith(t, Enqueue(queue, Reached(t), message))
                       /\ last_reply' = Some([kind |-> "DropTable", thread |-> t,
                                              error |-> "no answer"])
                  ELSE /\ queue' = Enqueue(queue, Threads \ {t}, message)
                       /\ last_reply' = Some([kind |-> "DropTable", thread |-> t,
                                              error |-> ""])
                       /\ UNCHANGED <<status, handler, tasks>>
    /\ UNCHANGED <<now, commit_log, handles, commit_logs, next_ino, manager,
                   next_tid, acked, last_get, last_flush, tx_log, compaction,
                   shutdown>>

\* sync_model on thread t, called for Command::SyncModel or for
\* ThreadMessage::SyncModel, in the same two ways.  The table enters the
\* registry with Memtable::default() and CommitLog::open_new, and the catalog
\* is rewritten from the schema of every table of the registry, the new one
\* among them, with table_schema pushed after them once more
SyncModel(t, from_message) ==
    /\ IF from_message THEN Receives(t, "SyncModel")
       ELSE /\ Serving(t)
            /\ used.schema_changes < MaxSchemaChanges
    /\ used' = IF from_message THEN used
               ELSE [used EXCEPT !.schema_changes = @ + 1]
    /\ LET received == IF from_message THEN [queue EXCEPT ![t] = Tail(@)] ELSE queue
           message == ThreadMessage("SyncModel", 0, t)
       IN IF TableName \in tables[t]
          THEN /\ IF from_message
                  THEN Panic(t) /\ UNCHANGED last_reply
                  ELSE /\ last_reply' = Some([kind |-> "SyncModel", thread |-> t,
                                 error |-> "Table 't' already exists"])
                       /\ UNCHANGED <<status, handler, tasks, queue>>
               /\ UNCHANGED <<memtable, commit_log, handles, commit_logs,
                              next_ino, tables, catalog>>
          ELSE /\ tables' = [tables EXCEPT ![t] = @ \cup {TableName}]
               /\ memtable' = [memtable EXCEPT ![t] = MemtableDefault]
               /\ handles' = Append(handles, CommitLogOpenNew)
               /\ commit_logs' = commit_logs \cup {CommitLogFile}
               /\ next_ino' = next_ino + 1
               /\ commit_log' = [commit_log EXCEPT ![t] = Len(handles) + 1]
               /\ catalog' = <<TableName>> \o <<TableName>>
               /\ IF from_message
                  THEN /\ queue' = received
                       /\ UNCHANGED <<status, handler, tasks, last_reply>>
                  ELSE IF SendFails(t)
                  THEN /\ PanicWith(t, Enqueue(queue, Reached(t), message))
                       /\ last_reply' = Some([kind |-> "SyncModel", thread |-> t,
                                              error |-> "no answer"])
                  ELSE /\ queue' = Enqueue(queue, Threads \ {t}, message)
                       /\ last_reply' = Some([kind |-> "SyncModel", thread |-> t,
                                              error |-> ""])
                       /\ UNCHANGED <<status, handler, tasks>>
    /\ UNCHANGED <<now, sstables, manager, next_tid, acked, last_get,
                   last_flush, tx_log, compaction, shutdown>>

\* The store with the table dropped and created again.  execute_operation
\* answers a request for a table that the registry of the thread does not
\* hold with an error
NextCatalog ==
    \/ \E t \in Threads, key \in Keys, values \in ClientValues :
            TableName \in tables[t] /\ InsertStart(t, key, values)
    \/ \E t \in Threads : InsertApply(t)
    \/ \E t \in Threads : Respond(t)
    \/ \E t \in Threads : DropTable(t, FALSE)
    \/ \E t \in Threads : DropTable(t, TRUE)
    \/ \E t \in Threads : SyncModel(t, FALSE)
    \/ \E t \in Threads : SyncModel(t, TRUE)
    \/ \E i \in 1 .. Len(tasks) : FlushStart(i)
    \/ \E i \in 1 .. Len(tasks) : FlushOpen(i)
    \/ \E i \in 1 .. Len(tasks) : FlushWriteIndex(i)
    \/ \E i \in 1 .. Len(tasks) : FlushWriteRows(i)
    \/ \E i \in 1 .. Len(tasks) : FlushDeleteLog(i)

SpecCatalog == Init /\ [][NextCatalog]_vars

(* ------------------------------------------------------------------ *)
(* Requests that carry a transaction id at any time: before the thread  *)
(* has taken TransactionBegun, after the commit was answered, or for a  *)
(* transaction the thread does not coordinate                           *)
(* ------------------------------------------------------------------ *)

\* handle_operation for an Insert with a transaction id, whatever the state
\* of the transaction: get_transaction_by_id answers the client error when
\* the manager of the thread has no buffer for the id, else the row is
\* buffered by Transaction::insert
InsertWithTransaction(t, tid, key, values) ==
    /\ Serving(t)
    /\ validate_hash_key_partition(key.hash_key, t)
    /\ tid \in DOMAIN tx_log
    /\ used.tx_operations < MaxTxOperations
    /\ used' = [used EXCEPT !.tx_operations = @ + 1]
    /\ LET row == RowNew(key.hash_key, key.sort_key, values)
       IN IF HasTransaction(t, tid)
          THEN /\ manager' = [manager EXCEPT ![t] =
                    PutTransaction(@, transaction_insert(TransactionOf(t, tid), key,
                                                         row, memtable[t]))]
               /\ tx_log' = [tx_log EXCEPT
                    ![tid].buffered = @ \cup {<<t, "Insert", key>>},
                    ![tid].recorded =
                        IF memtable_get(memtable[t], row.primary_key) # None
                        THEN @ \cup {key} ELSE @]
          ELSE UNCHANGED <<manager, tx_log>>
    /\ last_reply' = Some([kind |-> "Insert", thread |-> t, tid |-> tid,
                           outcome |-> tx_log[tid].outcome,
                           error |-> IF HasTransaction(t, tid) THEN ""
                                     ELSE "Transaction does not exist"])
    /\ UNCHANGED <<now, status, memtable, commit_log, handles, commit_logs,
                   sstables, next_ino, tasks, queue, handler, next_tid, acked,
                   last_get, last_flush>>
    /\ UNCHANGED <<tables, catalog, compaction, shutdown>>

\* CommitTransaction for an id the thread does not coordinate: the ? after
\* remove_coordinated returns the client error before anything else is done
CommitRejected(c, tid) ==
    /\ Serving(c)
    /\ remove_coordinated_fails(manager[c], tid)
    /\ last_reply' = Some([kind |-> "CommitTransaction", thread |-> c, tid |-> tid,
                           error |-> "Cannot commit non existing transaction"])
    /\ UNCHANGED <<now, status, memtable, commit_log, handles, commit_logs,
                   sstables, next_ino, tasks, manager, queue, handler, next_tid,
                   used, acked, last_get, last_flush, tx_log>>
    /\ UNCHANGED <<tables, catalog, compaction, shutdown>>

NextRequests ==
    \/ \E c \in Threads : BeginTransaction(c)
    \/ \E t \in Threads, tid \in Transactions, key \in Keys,
            values \in TransactionValues : InsertWithTransaction(t, tid, key, values)
    \/ \E c \in Threads, tid \in Transactions : CommitStart(c, tid)
    \/ \E c \in Threads, tid \in Transactions : CommitRejected(c, tid)
    \/ \E c \in Threads : CommitContinue(c)
    \/ \E c \in Threads, tid \in Transactions : AbortTransaction(c, tid)
    \/ \E t \in Threads : ThreadTransactionBegun(t)
    \/ \E t \in Threads : ThreadTransactionPrepare(t)
    \/ \E t \in Threads : ThreadTransactionCommit(t)
    \/ \E t \in Threads : ThreadTransactionAborted(t)

SpecRequests == Init /\ [][NextRequests]_vars

(* ------------------------------------------------------------------ *)
(* The commit log written and replayed, with the clock at any value     *)
(* ------------------------------------------------------------------ *)

\* The server after run_listener_threads started it on empty directories,
\* at millisecond 0 or at a millisecond whose low byte is the newline byte
InitFraming ==
    /\ now \in {0, NEWLINE}
    /\ status = [t \in Threads |-> "running"]
    /\ memtable = [t \in Threads |-> MemtableDefault]
    /\ commit_log = [t \in Threads |-> t + 1]
    /\ handles = [i \in 1 .. NumThreads |->
                    [file_path |-> i, file |-> Some(i), file_offset |-> 0,
                     closed |-> FALSE]]
    /\ commit_logs = {[serial |-> i, owner |-> Unobserved, millis |-> now,
                       bytes |-> <<>>] : i \in 1 .. NumThreads}
    /\ sstables = {}
    /\ next_ino = NumThreads + 1
    /\ tasks = <<>>
    /\ manager = [t \in Threads |-> TransactionManagerNew]
    /\ queue = [t \in Threads |-> <<>>]
    /\ handler = [t \in Threads |-> None]
    /\ next_tid = 1
    /\ used = [inserts |-> 0, deletes |-> 0, gets |-> 0, crashes |-> 0,
               failures |-> 0, transactions |-> 0, tx_operations |-> 0,
               schema_changes |-> 0]
    /\ acked = [k \in Keys \cup {KeyA, KeyC, KeyD} |-> None]
    /\ last_get = None
    /\ last_flush = None
    /\ tx_log = <<>>
    /\ tables = [t \in Threads |-> {TableName}]
    /\ catalog = <<TableName>>
    /\ compaction = CompactionSleeping
    /\ shutdown = [main |-> "running", sent |-> {}, at |-> 0, acknowledged |-> {}]
    /\ last_reply = None

NextFraming ==
    \/ Crash
    \/ Tick
    \/ \E t \in Threads : ThreadStart(t)
    \/ \E t \in Threads, key \in Keys, values \in ClientValues : InsertStart(t, key, values)
    \/ \E t \in Threads : InsertApply(t)
    \/ \E t \in Threads : Respond(t)
    \/ \E i \in 1 .. Len(tasks) : FlushStart(i)
    \/ \E i \in 1 .. Len(tasks) : FlushOpen(i)
    \/ \E i \in 1 .. Len(tasks) : FlushWriteIndex(i)
    \/ \E i \in 1 .. Len(tasks) : FlushWriteRows(i)
    \/ \E i \in 1 .. Len(tasks) : FlushDeleteLog(i)

SpecFraming == InitFraming /\ [][NextFraming]_vars

\* Inserts of keys that hold a colon, beside the key b:a
NextKeys ==
    \/ Tick
    \/ \E t \in Threads, key \in {KeyB, KeyC, KeyD}, values \in ClientValues :
            InsertStart(t, key, values)
    \/ \E t \in Threads : InsertApply(t)
    \/ \E t \in Threads : Respond(t)

SpecKeys == InitFraming /\ [][NextKeys]_vars

(* ------------------------------------------------------------------ *)
(* Properties                                                          *)
(* ------------------------------------------------------------------ *)

\* No message of transaction tid is left in a channel
Delivered(tid) ==
    \A t \in Threads : \A i \in 1 .. Len(queue[t]) : queue[t][i].tid # tid

\* The commit of transaction tid was answered, with success or a server error
Answered(tid) == tx_log[tid].outcome \in {"committed", "aborted"}

\* The keys transaction tid read or wrote
KeysOf(tid) == tx_log[tid].reads \cup {b[3] : b \in tx_log[tid].buffered}

\* C1: once CommitTransaction has been answered with success and the
\* TransactionCommit messages have been handled by threads that all still
\* run, every operation the transaction buffered, on the coordinator as on
\* any other thread, has been applied, and no thread keeps the transaction.
C1_CommitAppliesEveryBufferedOperation ==
    \A tid \in DOMAIN tx_log :
        (/\ tx_log[tid].outcome = "committed"
         /\ Delivered(tid)
         /\ \A t \in Threads : status[t] = "running")
        => /\ tx_log[tid].buffered \subseteq tx_log[tid].applied
           /\ \A t \in Threads : ~HasTransaction(t, tid)

C3_ReadThenOverwrittenAborts ==
    \A tid \in DOMAIN tx_log :
        (tx_log[tid].conflicts # {} /\ Answered(tid))
        => tx_log[tid].outcome = "aborted" /\ tx_log[tid].applied = {}

\* C4: no operation of a transaction is applied to a row that someone else
\* wrote after the transaction recorded the row's version: the version at
\* application is the version recorded.
C4_NoLostUpdate ==
    \A tid \in DOMAIN tx_log : ~tx_log[tid].lost_update

\* C5: two transactions whose keys are disjoint, none of whose recorded rows
\* was written by anyone else, both commit once both commits are answered.
C5_DisjointTransactionsCommit ==
    \A a \in DOMAIN tx_log : \A b \in DOMAIN tx_log :
        (/\ a # b
         /\ Answered(a) /\ Answered(b)
         /\ KeysOf(a) \cap KeysOf(b) = {}
         /\ tx_log[a].overwritten = {} /\ tx_log[b].overwritten = {})
        => tx_log[a].outcome = "committed" /\ tx_log[b].outcome = "committed"

\* C6: a Get of a key whose last write outside a transaction was an Insert
\* that had been answered returns the values of that Insert.
C6_GetReturnsAcknowledgedInsert ==
    (/\ last_get # None
     /\ last_get[1].expect # None
     /\ last_get[1].expect[1].kind = "Insert"
     /\ ~last_get[1].expect[1].crashed)
    => last_get[1].got = Some(last_get[1].expect[1].values)

\* C7: a Get of a key whose last write outside a transaction was a Delete
\* that had been answered returns no row.
C7_GetAfterDeleteIsAbsent ==
    (/\ last_get # None
     /\ last_get[1].expect # None
     /\ last_get[1].expect[1].kind = "Delete")
    => last_get[1].got = None

\* C8: after a crash and a restart in which every thread has replayed its
\* commit logs and no flush is left to run, a Get of a key whose last answered
\* write before the crash was an Insert returns the values of that Insert.
C8_RecoveryReturnsAcknowledgedInsert ==
    (/\ last_get # None
     /\ last_get[1].settled
     /\ last_get[1].expect # None
     /\ last_get[1].expect[1].kind = "Insert"
     /\ last_get[1].expect[1].crashed)
    => last_get[1].got = Some(last_get[1].expect[1].values)

\* C9: every Insert or Delete outside a transaction that was answered after
\* it changed the memtable had its record appended to the commit log first.
C9_NoAcknowledgedMutationWithoutLogRecord ==
    \A key \in Keys :
        (acked[key] # None /\ acked[key][1].applied) => acked[key][1].logged

\* C10: a flush task deletes its commit log only after write_to_disk has
\* written and synced the segment; when the write fails the log is left.
C10_LogDeletedOnlyAfterSegmentWritten ==
    last_flush # None => last_flush[1].written


\* C11: when compact_bucket has written the output segment, every key of an
\* input segment has exactly one record in the output, and that record is
\* the input record of that key with the greatest timestamp, its values and
\* its tombstone flag included
C11_CompactionKeepsNewestRecord ==
    compaction.pc = "unlinking" =>
        \A r \in compaction.source :
            LET rows == compaction.memtable.rows
                out == {i \in 1 .. Len(rows) : rows[i].primary_key = r.primary_key}
                newest == {s \in compaction.source :
                            /\ s.primary_key = r.primary_key
                            /\ \A u \in compaction.source :
                                u.primary_key = r.primary_key
                                    => u.timestamp <= s.timestamp}
            IN /\ Cardinality(out) = 1
               /\ \E i \in out : \E s \in newest :
                    /\ rows[i].hash_key = s.hash_key
                    /\ rows[i].sort_key = s.sort_key
                    /\ rows[i].values = s.values
                    /\ rows[i].timestamp = s.timestamp
                    /\ rows[i].marked_for_deletion = s.marked_for_deletion

\* C12: a Get that finds its key in no memtable and runs while the segments
\* are compacted ends without a panic and answers what it answers on the
\* same segments when no compaction runs
C12_LookupUnaffectedByCompaction ==
    (/\ last_reply # None
     /\ last_reply[1].kind = "Get"
     /\ \A o \in last_reply[1].alone : o.kind \in {"found", "none"})
        => last_reply[1].outcome \in last_reply[1].alone


\* C13: a Delete outside a transaction answers true exactly when a live row
\* of its key was in the store: when the last write answered for the key
\* before it was an Insert.
C13_DeleteTrueIffLive ==
    \A k \in Keys :
        (acked[k] # None /\ acked[k][1].kind = "Delete")
            => (acked[k][1].result <=> acked[k][1].live)


C16_ShutdownDrainsAndAcknowledges ==
    /\ \A t \in shutdown.sent \cap Threads : status[t] # "panicked"
    /\ \A t \in shutdown.acknowledged \cap Threads :
            \A i \in 1 .. Len(tasks) : ~(tasks[i].thread = t /\ tasks[i].ctrl_c)
    /\ shutdown.main # "panicked"
    /\ shutdown.main = "finished" => shutdown.acknowledged = 0 .. NumThreads


\* C17: while the last schema request answered is a DropTable that
\* succeeded, the table is not in the registry of the thread that answered,
\* the catalog has no line for it and no segment file of it exists.
C17_DroppedTableStaysGone ==
    (/\ last_reply # None
     /\ last_reply[1].kind = "DropTable"
     /\ last_reply[1].error = "")
        => /\ TableName \notin tables[last_reply[1].thread]
           /\ \A i \in 1 .. Len(catalog) : catalog[i] # TableName
           /\ sstables = {}

\* C18: while the last schema request answered is a SyncModel that
\* succeeded, the table is in the registry of the thread that answered and
\* the catalog holds exactly one line for it.
C18_CatalogOneLinePerTable ==
    (/\ last_reply # None
     /\ last_reply[1].kind = "SyncModel"
     /\ last_reply[1].error = "")
        => /\ TableName \in tables[last_reply[1].thread]
           /\ Cardinality({i \in 1 .. Len(catalog) : catalog[i] = TableName}) = 1

\* C19: every AbortTransaction request a coordinator handles sends
\* TransactionAborted to every other thread and is answered with success:
\* the thread that handled it still runs.
C19_AbortAlwaysMulticasts ==
    [][\A c \in Threads : \A tid \in DOMAIN tx_log :
            AbortTransaction(c, tid)
                => /\ tx_log'[tid].outcome = "client_abort"
                   /\ tx_log'[tid].aborted_to = Threads \ {c}
                   /\ status'[c] = "running"]_vars

\* C20: a transaction that read no row and whose commit was answered has
\* committed: nothing makes a write-only transaction abort.
C20_WriteOnlyCommits ==
    \A tid \in DOMAIN tx_log :
        (tx_log[tid].reads = {} /\ Answered(tid))
            => tx_log[tid].outcome = "committed"

\* The rows a flush task has encoded and written into its segment file
WrittenRows ==
    UNION {{tasks[i].memtable.rows[k] : k \in 1 .. Len(tasks[i].memtable.rows)} :
            i \in {j \in 1 .. Len(tasks) :
                        tasks[j].pc = "written" /\ ~tasks[j].failed}}

\* C21: decode_row of the bytes encode_row made of a row a flush has written
\* gives back the hash key, sort key, primary key, column values, timestamp
\* and tombstone flag of that row.
C21_RowEncodingRoundTrips ==
    \A row \in WrittenRows :
        LET decoded == decode_row(encode_row(row))
        IN /\ decoded # None
           /\ decoded[1].hash_key = row.hash_key
           /\ decoded[1].sort_key = row.sort_key
           /\ decoded[1].primary_key = row.primary_key
           /\ decoded[1].values = row.values
           /\ decoded[1].timestamp = row.timestamp
           /\ decoded[1].marked_for_deletion = row.marked_for_deletion

\* C22: every row a flush has written was encoded into exactly
\* row_byte_size bytes.
C22_EncodedRowHasRowByteSize ==
    \A row \in WrittenRows : Len(encode_row(row)) = row_byte_size

\* The CommitTransaction handler of thread t holds the manager lock of t and
\* waits for the vote of another thread
AwaitsVote(t) ==
    /\ status[t] = "running"
    /\ handler[t] # None
    /\ handler[t][1].kind = "Commit"
    /\ handler[t][1].vote = None

\* C23: every CommitTransaction request gets its response, so no state is
\* reached in which the commit handlers of a set of threads each wait for
\* the vote of a thread of the set, whose loop cannot take the
\* TransactionPrepare because its own handler holds the manager lock.
C23_CommitsNeverWaitInACycle ==
    ~\E waiting \in SUBSET Threads :
        /\ waiting # {}
        /\ \A t \in waiting : AwaitsVote(t) /\ handler[t][1].peer \in waiting

\* The message of kind for transaction tid that the step appends to the
\* channel of thread t
Sends(t, kind, tid) ==
    /\ Len(queue'[t]) > Len(queue[t])
    /\ queue'[t][Len(queue'[t])].kind = kind
    /\ queue'[t][Len(queue'[t])].tid = tid

\* C24: a step sends TransactionCommit(tid) only from the commit handler of
\* the coordinator, when the last of the other threads has voted yes, no
\* vote was no and the coordinator's own can_commit holds; a step sends
\* TransactionCommit or TransactionAborted for tid only while no decision
\* on tid was sent before, so the two are never both sent.
C24_CommitOnlyAfterEveryYes ==
    [][\A t \in Threads : \A tid \in DOMAIN tx_log :
        /\ Sends(t, "TransactionCommit", tid) =>
                LET c == tx_log[tid].coordinator
                IN /\ tx_log[tid].outcome = "committing"
                   /\ ~tx_log[tid].no_vote
                   /\ tx_log'[tid].aborted_to = {}
                   /\ handler[c] # None
                   /\ handler[c][1].tid = tid
                   /\ handler[c][1].vote = Some(TRUE)
                   /\ handler[c][1].rest = <<>>
                   /\ can_commit(handler[c][1].transaction, memtable[c])
        /\ Sends(t, "TransactionAborted", tid) =>
                /\ tx_log[tid].outcome \in {"active", "committing"}
                /\ tx_log'[tid].outcome \notin {"active", "committing", "committed"}
      ]_vars

\* A TransactionCommit is in the channel of a thread
C24_Witness ==
    \E t \in Threads : \E i \in 1 .. Len(queue[t]) :
        queue[t][i].kind = "TransactionCommit"

\* C25: an Insert that carries the id of a transaction whose commit or abort
\* was answered before is rejected with the client error.
C25_NoOperationAfterTerminal ==
    (/\ last_reply # None
     /\ last_reply[1].kind = "Insert"
     /\ last_reply[1].outcome \in {"committed", "aborted", "client_abort"})
        => last_reply[1].error # ""

\* C27: an Insert that carries the id of a transaction that has begun and
\* was neither committed nor aborted finds the buffer of the transaction on
\* the thread it is sent to.
C27_BufferExistsOnceBegun ==
    (/\ last_reply # None
     /\ last_reply[1].kind = "Insert"
     /\ last_reply[1].outcome = "active")
        => last_reply[1].error = ""

\* C26: a step that handles CommitTransaction for an id the receiving
\* thread does not coordinate answers the client error, sends no message and
\* leaves the managers, the handlers, the memtables and the logs of every
\* thread as they were.
C26_ForeignCommitRejected ==
    [][\A c \in Threads : \A tid \in Transactions :
        (/\ tid \notin manager[c].coordinated_transactions
         /\ CommitStart(c, tid) \/ CommitRejected(c, tid))
            => /\ last_reply' # None
               /\ last_reply'[1].kind = "CommitTransaction"
               /\ last_reply'[1].thread = c
               /\ last_reply'[1].error # ""
               /\ UNCHANGED <<status, manager, queue, handler, tasks, memtable,
                              commit_log, commit_logs, sstables, tx_log>>
      ]_vars

\* A CommitTransaction was rejected on a thread that holds a buffer of the
\* transaction but does not coordinate it
C26_Witness ==
    /\ last_reply # None
    /\ last_reply[1].kind = "CommitTransaction"
    /\ last_reply[1].error # ""
    /\ HasTransaction(last_reply[1].thread, last_reply[1].tid)
    /\ tx_log[last_reply[1].tid].coordinator # last_reply[1].thread

\* C28: a Get that finds no row in the memtable answers from the records
\* the segments were written from, whatever the compaction does meanwhile:
\* it returns a row when every record of the key is live, no row when every
\* record of the key is a tombstone or there is none, and a row it returns
\* is not marked for deletion and carries the values of a live record of
\* the key.
C28_GetAnswersFromNewestRecord ==
    (last_reply # None /\ last_reply[1].kind = "Get")
        => \A outcome \in last_reply[1].alone :
            LET key == last_reply[1].key
                records == {r \in compaction.source :
                              r.primary_key = PrimaryKey(key.hash_key, key.sort_key)}
                live == {r \in records : ~r.marked_for_deletion}
            IN /\ outcome.kind \in {"found", "none"}
               /\ (records # {} /\ live = records) => outcome.kind = "found"
               /\ live = {} => outcome.kind = "none"
               /\ outcome.kind = "found" =>
                    /\ ~outcome.row[1].marked_for_deletion
                    /\ \E r \in live : r.values = outcome.row[1].values

\* C29: the row of a key in the live memtable of a thread carries a greater
\* version than every earlier state of that row: than the row of the same
\* key in a memtable that was swapped out and is being flushed.
C29_VersionGrowsAcrossFlush ==
    \A i \in 1 .. Len(tasks) : \A t \in Threads :
        \A k \in 1 .. Len(tasks[i].memtable.rows) :
            \A n \in 1 .. Len(memtable[t].rows) :
                memtable[t].rows[n].primary_key = tasks[i].memtable.rows[k].primary_key
                    => memtable[t].rows[n].version > tasks[i].memtable.rows[k].version

\* C30: the commit log of the live memtable of every running thread is
\* open and its file has not been deleted.
C30_LiveMemtableHasItsLog ==
    \A t \in Threads :
        status[t] = "running"
            => /\ handles[commit_log[t]].file # None
               /\ ~handles[commit_log[t]].closed
               /\ \E f \in commit_logs : f.serial = handles[commit_log[t]].file_path

\* The compaction round that began on the segments compaction.inputs has
\* unlinked its last input
RoundCompleted == compaction.pc = "sleeping" /\ compaction.inputs # {}

\* The key whose hash key is the one every encoded row carries, with an
\* empty sort key: a key that decode_row gives back as it was written
KeyZ == [hash_key |-> HashZ, sort_key |-> Varchar(<<>>)]

\* read_row_from_sstable as the Get arm of execute_operation calls it on a
\* serving thread, for the segments of directory
LookupIn(key, directory) ==
    read_row_from_sstable(PrimaryKey(key.hash_key, key.sort_key),
                          get_hash_key_target_partition(key.hash_key, NumThreads),
                          directory)

\* C31: once a bucket is compacted, a lookup of any key in the segments
\* answers what it answered on the segments as they were before the round.
C31_CompactionPreservesLookups ==
    RoundCompleted =>
        \A key \in Keys \cup {KeyZ} :
            LookupIn(key, sstables) = LookupIn(key, compaction.inputs)

\* The output segment of the round is in the directory with its partition
\* index and all its rows
OutputWritten ==
    LET segment == to_sstable_rows(compaction.memtable, NUM_OF_PARTITIONS)
    IN \E f \in sstables :
        /\ f.name = compaction.name
        /\ f.bytes = partition_index_bytes(segment.partition_index)
                        \o encoded_rows(segment.rows)

\* C32: an input segment of a compaction round is gone from the directory
\* only when the output segment of the round has been written; when
\* writing the output fails, every input stays in place.
C32_InputsKeptUntilOutputWritten ==
    (\E i \in 1 .. Len(compaction.bucket) :
        ~HasFile(sstables, compaction.bucket[i].name))
        => OutputWritten

\* The rows of a segment file looked through one by one: row number n of
\* the file.name[2] rows lies behind the partition index, at byte
\* file.name[1] + n * row_byte_size.  The first row of the key, or no row
RECURSIVE LinearScan(_, _, _)
LinearScan(primary_key, file, row_number) ==
    IF row_number >= file.name[2] THEN NotFound
    ELSE LET row == decode_row(ReadExactAt(file.bytes, Zeros(row_byte_size),
                                file.name[1] + row_number * row_byte_size))
         IN IF row # None /\ row[1].primary_key = primary_key
            THEN Found(row[1])
            ELSE LinearScan(primary_key, file, row_number + 1)

\* C33: for every segment of the directory that has been written and every
\* key, the binary search of the segment answers what a linear scan of its
\* rows answers, and it never leaves the row numbers 0 .. num_of_rows - 1.
C33_BinarySearchAgreesWithLinearScan ==
    \A f \in sstables :
        f.name # compaction.name =>
            \A key \in Keys \cup {KeyZ} :
                LET primary_key == PrimaryKey(key.hash_key, key.sort_key)
                    partition == get_hash_key_target_partition(key.hash_key,
                                                               NumThreads)
                    outcome == SearchSegment(primary_key, partition, f)
                IN /\ outcome.kind # "underflow"
                   /\ outcome = LinearScan(primary_key, f, 0)

\* C34: an Insert or Delete with a transaction id changes neither the
\* memtables nor the commit logs nor the segments: it leaves the operations
\* buffered so far in place and adds at most its own at the end, and a
\* Delete of a key that has no live row in the memtable answers false and
\* leaves the transaction as it was.
C34_TransactionalWritesOnlyBuffer ==
    [][\A t \in Threads, tid \in Transactions, key \in Keys :
        LET primary_key == PrimaryKey(key.hash_key, key.sort_key)
            before == TransactionOf(t, tid).operations
            after == TransactionOf(t, tid)'.operations
            inserts == \E values \in TransactionValues :
                            TxInsert(t, tid, key, values)
            deletes == TxDelete(t, tid, key)
        IN /\ (inserts \/ deletes) =>
                /\ memtable' = memtable
                /\ commit_log' = commit_log
                /\ commit_logs' = commit_logs
                /\ handles' = handles
                /\ sstables' = sstables
                /\ tasks' = tasks
                /\ HasTransaction(t, tid)'
                /\ Len(after) \in {Len(before), Len(before) + 1}
                /\ SubSeq(after, 1, Len(before)) = before
           /\ inserts =>
                /\ Len(after) = Len(before) + 1
                /\ after[Len(after)].kind = "Insert"
                /\ after[Len(after)].key = key
           /\ (deletes /\ memtable_get(memtable[t], primary_key) = None) =>
                /\ ~transaction_delete_result(primary_key, memtable[t])
                /\ TransactionOf(t, tid)' = TransactionOf(t, tid)
           /\ (deletes /\ memtable_get(memtable[t], primary_key) # None) =>
                /\ transaction_delete_result(primary_key, memtable[t])
                /\ Len(after) = Len(before) + 1
                /\ after[Len(after)].kind = "Delete"
                /\ after[Len(after)].key = key
      ]_vars

\* A thread holds a transaction with a buffered Delete and a buffered
\* Insert beside a memtable with a row in it
C34_Witness ==
    \E t \in Threads, tid \in Transactions :
        /\ HasTransaction(t, tid)
        /\ memtable[t].rows # <<>>
        /\ \E i, j \in 1 .. Len(TransactionOf(t, tid).operations) :
                /\ TransactionOf(t, tid).operations[i].kind = "Delete"
                /\ TransactionOf(t, tid).operations[j].kind = "Insert"

Replayed(bytes, start) == ReplayOperations(split_by_newline(bytes), start)

C37_FramingRoundTrips ==
    \A t \in Threads :
        (/\ status[t] = "running"
         /\ handler[t] # None
         /\ handler[t][1].kind = "Insert"
         /\ handler[t][1].pc = "logged") =>
            \A f \in commit_logs :
                handles[commit_log[t]].file = Some(f.serial) =>
                    LET byte_operations == split_by_newline(f.bytes)
                    IN /\ byte_operations # <<>>
                       /\ byte_operations[Len(byte_operations)]
                            = <<1>> \o encode_row(handler[t][1].row)

\* C38: no thread fails on a DropTable or SyncModel message of a peer, and
\* whenever every thread runs and no message is left in a channel, every
\* thread holds the same set of tables.
C38_RegistriesConverge ==
    /\ [][\A t \in Threads :
            (DropTable(t, TRUE) \/ SyncModel(t, TRUE)) => status'[t] = "running"]_vars
    /\ []((\A t \in Threads : status[t] = "running" /\ queue[t] = <<>>)
            => \A t, u \in Threads : tables[t] = tables[u])

\* C39: no two flush tasks have opened the same segment file: two writes
\* of a segment never go to one file.
C39_SegmentWritesTargetDistinctFiles ==
    \A i, j \in 1 .. Len(tasks) :
        (i # j /\ tasks[i].ino # 0 /\ tasks[j].ino # 0)
            => tasks[i].ino # tasks[j].ino

\* C40: two keys with the same primary key are the same key: the row of an
\* Insert that a thread is serving has the hash key and the sort key of
\* every row of the memtable that has its primary key.
C40_PrimaryKeyInjective ==
    \A t \in Threads :
        (handler[t] # None /\ handler[t][1].kind = "Insert") =>
            \A i \in 1 .. Len(memtable[t].rows) :
                memtable[t].rows[i].primary_key = handler[t][1].row.primary_key
                    => /\ memtable[t].rows[i].hash_key = handler[t][1].row.hash_key
                       /\ memtable[t].rows[i].sort_key = handler[t][1].row.sort_key

====
